---- MODULE Spec2Model ----
(***************************************************************************)
(* Conversation synchronisation and voice coordination of the Copilot      *)
(* Studio chat control: the Direct Line poll loop of ChatWindow.tsx with   *)
(* its de-duplicated transcript, the speech walk guarded by isSpeakingRef, *)
(* and the hands-free (driving mode) microphone with its auto-send timer.  *)
(*                                                                         *)
(* One JavaScript task (an event handler, a timer callback, the code that  *)
(* runs between two awaits) is one action.  React effects whose            *)
(* dependencies a task changes are run as part of that task (Effects).     *)
(***************************************************************************)
EXTENDS Integers, Sequences, FiniteSets, TLC

VARIABLES
    \* Direct Line conversation (server side) and CopilotChatService
    log,              \* the activities of the conversation, in transport order
    watermark,        \* CopilotChatService.watermark (0 stands for null)
    polls,            \* getMessages() calls in flight
    pollHist,         \* per issued poll: the watermark sent, the watermark returned
    \* ChatWindow transcript state
    seenMessageIds, messages, rnd,
    \* speech output
    isMuted, drivingMode, spokenMessageIds, isSpeakingRef, cancelSpeechRef,
    isPlaying, isPaused, walks, walkCount, audioRef, speakLog, dropped, rejected,
    cancelResetTimer,
    \* speech input (hands-free)
    rec, isListening, autoSendTimer, restartTimers, autoStartTimer,
    isSending, isTyping, recClosure, sends, sentLog,
    heard,            \* the final results the recognition sessions delivered
    inputText,        \* the value of the chat window's input box
    elapsed,          \* the results whose auto-send timer ran out
    \* user actions taken so far
    userActs,
    \* persistence and the Control component
    now,              \* Date.now(), in milliseconds
    stored,           \* the conversation entry of localStorage
    conversationId,   \* CopilotChatService.conversationId (0 stands for null)
    startCalls,       \* calls of startConversation() made so far
    ctl,              \* the state of ChatDirectLineControl and of initializeChat
    \* lifetime of the chat window
    interval,         \* the poll effect's setInterval is set
    teardown,         \* "none", "unmounted" or "destroyed"
    \* the conversation-start handshake
    startTimers,      \* pending setTimeouts that call triggerConversationStart
    hsRuns,           \* triggerConversationStart() calls in progress
    hsLog,            \* what the calls posted and observed, in order
    \* the browser voice and speak() calls made outside a walk
    synth,            \* the message window.speechSynthesis is speaking (None: silent)
    previews,         \* speak() calls of unlockAudio and of the voice preview in flight
    audioUnlocked,
    \* useAttachments
    attachments,      \* the pending attachments
    isProcessing,
    addCall,          \* the addFiles call in progress
    addLog,           \* the results of the addFiles calls that ended
    \* useSpeak.speak as a function of its configuration
    tts

serverVars == <<log>>
pollVars   == <<watermark, polls, pollHist, seenMessageIds, messages, rnd, stored>>
speechVars == <<isMuted, drivingMode, spokenMessageIds, isSpeakingRef,
                cancelSpeechRef, isPlaying, isPaused, walks, walkCount,
                audioRef, speakLog, dropped, rejected, cancelResetTimer>>
micVars    == <<rec, isListening, autoSendTimer, restartTimers, autoStartTimer,
                isSending, isTyping, recClosure, sends, sentLog, heard, inputText,
                elapsed>>
ctlVars    == <<now, conversationId, startCalls, ctl>>
lifeVars   == <<interval, teardown>>
hsVars     == <<startTimers, hsRuns, hsLog>>
voiceVars  == <<synth, previews, audioUnlocked>>
attVars    == <<attachments, isProcessing, addCall, addLog>>
vars == <<serverVars, pollVars, speechVars, micVars, userActs, ctlVars, lifeVars, hsVars,
          voiceVars, attVars, tts>>

(***************************************************************************)
(* Bounds of the model.                                                    *)
(***************************************************************************)
MaxTurns == 2        \* activities the conversation can hold
MaxPolls == 3        \* getMessages() calls issued in a run
SpeechPolls == 2     \* getMessages() calls issued, and bot messages posted, in a speech run
MaxUserActs == 1     \* user actions on speech and microphone in a run
MaxResults == 2      \* final results delivered by recognition sessions in a run
MaxDriveActs == 2    \* user actions on driving mode, its modal and the input box in a run
MaxMenuActs == 2     \* user actions in a run whose last one is Play in the audio menu
MaxHandshakes == 1   \* calls of triggerConversationStart in a run
MaxAddCalls == 1     \* calls of addFiles in a run
MaxBatch == 6        \* files of the largest batch handed to addFiles
MaxBody == 2         \* items in the body of an adaptive card
CardTurns == 1       \* activities, and polls, of a run with adaptive cards

\* `activity.id || ''`: the key under which an activity without id is seen
NoId == 0
\* no audio element (null)
None == 0
\* a confidence the recogniser does not report
Undefined == -1
\* loadConversationState returns null: nothing is stored (conversationId 0)
NoState == [conversationId |-> 0, watermark |-> 0, savedAt |-> 0]

(***************************************************************************)
(* Activities.                                                             *)
(* att is the first attachment: "none", "signin" (an OAuth or sign-in card)  *)
(* or "card" (an adaptive card).  card is the content of the adaptive      *)
(* card: its speak property ("" when it has none) and the text properties  *)
(* of the items of its body ("" for an item without text; the empty body   *)
(* also stands for a card without body).  silent is                        *)
(* channelData.silentGreeting.                                             *)
(***************************************************************************)
\* the speak property of the adaptive card of the shapes written with Shape
CardSpeak == "Card"

NoCard == [speak |-> "", body |-> <<>>]

Shape(from, type, silent, text, att) ==
    [from |-> from, type |-> type, silent |-> silent, text |-> text, att |-> att,
     card |-> IF att = "card" THEN [speak |-> CardSpeak, body |-> <<>>] ELSE NoCard]

\* a bot message whose first attachment is the adaptive card `card`
CardShape(text, card) ==
    [from |-> "bot", type |-> "message", silent |-> FALSE, text |-> text,
     att |-> "card", card |-> card]

BotText    == Shape("bot", "message", FALSE, "Hello", "none")
BotEmpty   == Shape("bot", "message", FALSE, "", "none")
UserText   == Shape("user", "message", FALSE, "Hi", "none")

MakeActivity(shape, pos, hasId) ==
    [pos |-> pos, id |-> IF hasId THEN pos ELSE NoId, from |-> shape.from,
     type |-> shape.type, silent |-> shape.silent, text |-> shape.text,
     att |-> shape.att, card |-> shape.card]

\* the filter without its test of the activity type
IsBotMessageAnyType(a) == a.from # "user" /\ ~a.silent

\* CopilotChatService.getMessages: the filter on the returned activities
IsBotMessage(a) == a.from # "user" /\ a.type = "message" /\ ~a.silent

GetMessagesFilter(acts) == SelectSeq(acts, IsBotMessage)

\* the first .filter without its seenMessageIds.add
RECURSIVE SeenFilterNoAdd(_, _)
SeenFilterNoAdd(acts, seen) ==
    IF acts = <<>> THEN [kept |-> <<>>, seen |-> seen]
    ELSE LET a == Head(acts)
             r == SeenFilterNoAdd(Tail(acts), seen)
         IN  IF a.id \in seen THEN r
             ELSE [kept |-> <<a>> \o r.kept, seen |-> r.seen]

\* pollMessages: the first .filter, run left to right over the activities
RECURSIVE SeenFilter(_, _)
SeenFilter(acts, seen) ==
    IF acts = <<>> THEN [kept |-> <<>>, seen |-> seen]
    ELSE LET a == Head(acts)
         IN  IF a.id \in seen THEN SeenFilter(Tail(acts), seen)
             ELSE LET r == SeenFilter(Tail(acts), seen \cup {a.id})
                  IN  [kept |-> <<a>> \o r.kept, seen |-> r.seen]

\* Array.prototype.join
RECURSIVE Join(_, _)
Join(texts, sep) ==
    IF texts = <<>> THEN ""
    ELSE IF Len(texts) = 1 THEN texts[1]
    ELSE texts[1] \o sep \o Join(Tail(texts), sep)

\* `.map(item => item.text || '').filter(text => text)`
BodyTexts(card) == SelectSeq(card.body, LAMBDA text : text # "")

\* a speakText that joins the body texts as the display text does
CardSpeakTextSpaces(card) ==
    IF card.speak # "" THEN card.speak
    ELSE IF Len(card.body) > 0 THEN Join(BodyTexts(card), " ")
    ELSE ""

\* speakText of an adaptive card: its speak property, else its body texts
CardSpeakText(card) ==
    IF card.speak # "" THEN card.speak
    ELSE IF Len(card.body) > 0 THEN Join(BodyTexts(card), ". ")
    ELSE ""

\* pollMessages: the .map; rid is the Math.random() id of an activity without id
MapActivity(a, rid) ==
    LET messageText == IF a.att = "signin" THEN "Authentication required"
                       ELSE IF a.att = "card" /\ a.text = "" /\ Len(a.card.body) > 0
                       THEN Join(BodyTexts(a.card), " ")
                       ELSE a.text
        speakText == IF a.att = "card" THEN CardSpeakText(a.card) ELSE ""
    IN  [id |-> IF a.id # NoId THEN a.id ELSE rid, pos |-> a.pos, isUser |-> FALSE,
         text |-> messageText, att |-> a.att,
         speakText |-> IF speakText # "" THEN speakText ELSE messageText]

RECURSIVE MapAll(_, _)
MapAll(acts, n) ==
    IF acts = <<>> THEN <<>>
    ELSE LET a == Head(acts)
         IN  IF a.id # NoId THEN <<MapActivity(a, 0)>> \o MapAll(Tail(acts), n)
             ELSE <<MapActivity(a, -(n + 1))>> \o MapAll(Tail(acts), n + 1)

NoIdCount(acts) == Len(SelectSeq(acts, LAMBDA a: a.id = NoId))

\* pollMessages: the last .filter (text, isSignInCard or adaptiveCard)
HasContent(m) == m.text # "" \/ m.att # "none"

\* the unspokenMessages loop without its spokenMessageIds.has
UnspokenNoCheck(newMessages, spoken) ==
    SelectSeq(newMessages, LAMBDA m: m.speakText # "")

\* pollMessages: the messages handed to speech by a poll (unspokenMessages)
Unspoken(newMessages, spoken) ==
    SelectSeq(newMessages, LAMBDA m: m.speakText # "" /\ m.id \notin spoken)

Ids(ms) == {ms[i].id : i \in 1..Len(ms)}
IdSeq(ms) == [i \in 1..Len(ms) |-> ms[i].id]

\* the ids added were the isSpeakingRef check to come first
MarkedAfterLockCheck(unspoken, locked) == IF locked THEN {} ELSE Ids(unspoken)

\* the ids added were a message marked only when it is not going to be spoken
MarkedUnlessSpoken(unspoken, locked) == IF locked THEN Ids(unspoken) ELSE {}

\* pollMessages: the ids a poll adds to spokenMessageIds; the loop that adds
\* them runs before the isSpeakingRef check (locked is the lock's value)
Marked(unspoken, locked) == Ids(unspoken)



(***************************************************************************)
(* The state of a ChatWindow as it mounts.  isMuted comes from the saved    *)
(* settings.                                                               *)
(***************************************************************************)
\* no addFiles call is in progress
NoCall == [files |-> <<>>, i |-> 0, newAttachments |-> <<>>, errors |-> <<>>,
           pending |-> 0]
\* speak has not been called
NoSpeak == [called |-> FALSE]

\* autoSendTimerRef holds no pending timer
NoTimer == [text |-> <<>>, conf |-> Undefined]

WindowInit ==
    /\ watermark = 0
    /\ polls = {}
    /\ pollHist = <<>>
    /\ seenMessageIds = {}
    /\ messages = <<>>
    /\ rnd = 0
    /\ isMuted \in BOOLEAN
    /\ drivingMode = FALSE
    /\ spokenMessageIds = {}
    /\ isSpeakingRef = FALSE
    /\ cancelSpeechRef = FALSE
    /\ isPlaying = FALSE
    /\ isPaused = FALSE
    /\ walks = {}
    /\ walkCount = 0
    /\ audioRef = None
    /\ speakLog = <<>>
    /\ dropped = {}
    /\ rejected = <<>>
    /\ cancelResetTimer = FALSE
    /\ rec = "idle"
    /\ isListening = FALSE
    /\ autoSendTimer = NoTimer
    /\ restartTimers = 0
    /\ autoStartTimer = FALSE
    /\ isSending = FALSE
    /\ isTyping = FALSE
    /\ recClosure = [d |-> FALSE, sending |-> FALSE]
    /\ sends = {}
    /\ sentLog = <<>>
    /\ heard = <<>>
    /\ inputText = <<>>
    /\ elapsed = <<>>
    /\ userActs = 0
    /\ teardown = "none"
    /\ hsRuns = {}
    /\ hsLog = <<>>
    /\ synth = None
    /\ previews = {}
    /\ audioUnlocked = FALSE
    /\ isProcessing = FALSE
    /\ addCall = NoCall
    /\ addLog = <<>>

\* initializeChat has run to its end without a saved conversation:
\* startConversation() has stored the new conversation, the chat window is
\* mounted, its poll interval and its 1000 ms conversation-start timer are set
Started ==
    /\ log = <<>>
    /\ now = 0
    /\ conversationId = 1
    /\ startCalls = 1
    /\ stored = [conversationId |-> 1, watermark |-> 0, savedAt |-> 0]
    /\ ctl = [pc |-> "done", secret |-> TRUE, isInitializing |-> FALSE, error |-> FALSE,
              chatService |-> TRUE, isReconnected |-> FALSE, found |-> NoState,
              savedState |-> NoState, loadedAt |-> 0, status |-> 0, started |-> "ok"]
    /\ interval = TRUE
    /\ startTimers = 1

Init == WindowInit /\ Started /\ attachments = <<>> /\ tts = NoSpeak

(***************************************************************************)
(* React effects of ChatWindow, run when a task changed their               *)
(* dependencies.  listening0, rec0 and timer0 are the values the task       *)
(* itself leaves; the task has already fixed drivingMode', isPlaying',      *)
(* isSending' and isTyping'.                                                *)
(***************************************************************************)
\* recognition.stop(): the session stops listening; its onend is still to come
StopRec(r) == IF r = "active" THEN "ending" ELSE r

\* the condition of the auto-start effect
AutoStartCond(d, listening, playing, sending, typing) ==
    d /\ ~listening /\ ~playing /\ ~sending /\ ~typing

Effects(listening0, rec0, timer0) ==
    LET dmChanged == drivingMode' # drivingMode
        \* "Force-stop mic when bot starts speaking", deps [drivingMode, isPlaying]
        force == (dmChanged \/ isPlaying' # isPlaying) /\ drivingMode' /\ isPlaying'
        listening1 == IF force THEN FALSE ELSE listening0
    IN  \* "Initialize speech recognition", deps [drivingMode]: the cleanup stops
        \* the session and clears the auto-send timer, the effect captures
        \* drivingMode and sendMessage (with its isSending) of this render
        /\ rec' = IF dmChanged \/ force THEN StopRec(rec0) ELSE rec0
        /\ isListening' = listening1
        /\ autoSendTimer' = IF dmChanged \/ force THEN NoTimer ELSE timer0
        /\ recClosure' = IF dmChanged
                         THEN [d |-> drivingMode', sending |-> isSending']
                         ELSE recClosure
        \* "Auto-start listening", deps [drivingMode, isListening, isPlaying,
        \* isSending, isTyping]: the cleanup clears the 500 ms timer
        /\ autoStartTimer' =
              IF \/ dmChanged \/ listening1 # isListening \/ isPlaying' # isPlaying
                 \/ isSending' # isSending \/ isTyping' # isTyping
              THEN AutoStartCond(drivingMode', listening1, isPlaying', isSending', isTyping')
              ELSE autoStartTimer

NoEffects == Effects(isListening, rec, autoSendTimer)

\* a user action (the model bounds how many a run takes)
UserAct ==
    /\ teardown = "none"
    /\ userActs < MaxUserActs
    /\ userActs' = userActs + 1
    /\ UNCHANGED <<ctlVars, lifeVars, hsVars, attVars, tts>>

DriveAct ==
    /\ teardown = "none"
    /\ userActs < MaxDriveActs
    /\ userActs' = userActs + 1
    /\ UNCHANGED <<ctlVars, lifeVars, hsVars, attVars, tts>>

\* Play is rendered after Pause, Stop or the voice checkbox: it may follow
\* another user action
MenuAct ==
    /\ teardown = "none"
    /\ userActs < MaxMenuActs
    /\ userActs' = userActs + 1
    /\ UNCHANGED <<ctlVars, lifeVars, hsVars, attVars, tts>>

(***************************************************************************)
(* utils/storage.ts: the conversation entry of localStorage.               *)
(***************************************************************************)
\* 30 * 60 * 1000
CONVERSATION_EXPIRY_MS == 30 * 60 * 1000

\* saveConversationState: the entry written at time `now`
SaveConversationState(cid, wm) ==
    [conversationId |-> cid, watermark |-> wm, savedAt |-> now]

\* clearConversationState: the entry is removed
ClearConversationState == NoState

\* getMessages telling the callback only of a watermark that moved
NotifyIfMoved(cid, wm) ==
    IF cid # 0 /\ wm # watermark THEN SaveConversationState(cid, wm) ELSE stored

\* getMessages / startConversation: `if (this.onStateChange && this.conversationId)`
\* then the callback set by initializeChat, saveConversationState, is called;
\* the result is the entry localStorage holds afterwards
NotifyStateChange(cid, wm) ==
    IF cid # 0 THEN SaveConversationState(cid, wm) ELSE stored

(***************************************************************************)
(* The Direct Line conversation.                                           *)
(***************************************************************************)
\* an activity is added to the conversation (by the bot, or a user turn)
ServerAppend(kinds, maxTurns) ==
    /\ UNCHANGED <<userActs, ctlVars, lifeVars, hsVars, attVars, tts, voiceVars>>
    /\ Len(log) < maxTurns
    /\ \E k \in kinds :
          log' = Append(log, MakeActivity(k[1], Len(log) + 1, k[2]))
    /\ UNCHANGED <<pollVars, speechVars, micVars>>

(***************************************************************************)
(* The poll loop: setInterval(pollMessages, 3000).                         *)
(***************************************************************************)
\* an interval tick: getMessages() sends the request with the current watermark;
\* m and d are isMuted and drivingMode of the effect closure the tick runs in.
\* With served, the server answers the request as it is sent (only the
\* response is delayed); otherwise ServerAnswer answers it later.
PollTick(maxPolls, served) ==
    /\ UNCHANGED <<userActs, ctlVars, lifeVars, hsVars, attVars, tts, voiceVars>>
    /\ interval
    /\ Len(pollHist) < maxPolls
    /\ polls' = polls \cup {[n |-> Len(pollHist) + 1, wm |-> watermark,
                             st |-> IF served THEN "answered" ELSE "sent",
                             hi |-> IF served THEN Len(log) ELSE 0,
                             m |-> isMuted, d |-> drivingMode]}
    /\ pollHist' = Append(pollHist, [sent |-> watermark, ret |-> -1])
    /\ UNCHANGED <<serverVars, watermark, seenMessageIds, messages, rnd, stored,
                   speechVars, micVars>>

\* the server answers a request: the activities after the request's watermark
\* and the new watermark
ServerAnswer ==
    /\ UNCHANGED <<userActs, ctlVars, lifeVars, hsVars, attVars, tts, voiceVars>>
    /\ \E p \in polls :
        /\ p.st = "sent"
        /\ polls' = (polls \ {p}) \cup {[p EXCEPT !.st = "answered", !.hi = Len(log)]}
        /\ UNCHANGED <<serverVars, watermark, pollHist, seenMessageIds, messages, rnd,
                       stored, speechVars, micVars>>

\* a catch block that also clears the interval
PollFailStopsLoop ==
    /\ UNCHANGED <<userActs, ctlVars, teardown, hsVars, voiceVars, attVars, tts>>
    /\ interval' = FALSE
    /\ \E p \in polls :
        /\ p.st = "sent"
        /\ polls' = polls \ {p}
        /\ UNCHANGED <<serverVars, watermark, pollHist, seenMessageIds, messages, rnd,
                       stored, speechVars, micVars>>

\* the request fails or the status is not ok: getMessages throws, pollMessages
\* catches and logs
PollFail ==
    /\ UNCHANGED <<userActs, ctlVars, lifeVars, hsVars, attVars, tts, voiceVars>>
    /\ \E p \in polls :
        /\ p.st = "sent"
        /\ polls' = polls \ {p}
        /\ UNCHANGED <<serverVars, watermark, pollHist, seenMessageIds, messages, rnd,
                       stored, speechVars, micVars>>

\* the response arrives: getMessages stores the returned watermark, and
\* pollMessages runs to its end or, when it starts a walk, to the first await
\* inside speak()
PollRecv ==
    /\ UNCHANGED <<userActs, ctlVars, lifeVars, hsVars, attVars, tts, voiceVars>>
    /\ \E p \in polls :
        /\ p.st = "answered"
        /\ LET acts == GetMessagesFilter(SubSeq(log, p.wm + 1, p.hi))
               f == SeenFilter(acts, seenMessageIds)
               newMessages == SelectSeq(MapAll(f.kept, rnd), HasContent)
               shouldSpeak == ~p.m \/ p.d
               unspoken == IF shouldSpeak
                           THEN Unspoken(newMessages, spokenMessageIds)
                           ELSE <<>>
               handoff == unspoken # <<>>
               \* the lock is free: it is taken and the walk begins
               start == handoff /\ ~isSpeakingRef
               \* the walk's first cancelSpeechRef check passes: speak() is called
               speaks == start /\ ~cancelSpeechRef
               \* "Stopping mic while bot speaks"
               micStop == start /\ p.d
           IN  /\ polls' = polls \ {p}
               /\ watermark' = p.hi
               /\ stored' = NotifyStateChange(conversationId, p.hi)
               /\ pollHist' = [pollHist EXCEPT ![p.n].ret = p.hi]
               /\ seenMessageIds' = f.seen
               /\ rnd' = rnd + NoIdCount(f.kept)
               /\ messages' = messages \o newMessages
               /\ isTyping' = IF newMessages # <<>> THEN FALSE ELSE isTyping
               /\ spokenMessageIds' = spokenMessageIds \cup Marked(unspoken, isSpeakingRef)
               /\ dropped' = IF handoff /\ isSpeakingRef
                             THEN dropped \cup Ids(unspoken)
                             ELSE dropped
               \* a walk cancelled at its first check goes straight to its finally
               /\ isSpeakingRef' = IF start THEN speaks ELSE isSpeakingRef
               /\ isPlaying' = IF start THEN speaks ELSE isPlaying
               /\ walks' = IF speaks
                           THEN walks \cup {[wid |-> walkCount + 1, q |-> IdSeq(unspoken),
                                             st |-> "fetch", d |-> p.d,
                                             stopped |-> FALSE]}
                           ELSE walks
               /\ walkCount' = IF speaks THEN walkCount + 1 ELSE walkCount
               /\ speakLog' = IF speaks THEN Append(speakLog, unspoken[1].id) ELSE speakLog
               /\ UNCHANGED <<serverVars, isMuted, drivingMode, cancelSpeechRef,
                              isPaused, audioRef, rejected, cancelResetTimer,
                              restartTimers, isSending, sends, sentLog, heard, inputText, elapsed>>
               /\ Effects(IF micStop THEN FALSE ELSE isListening,
                          IF micStop THEN StopRec(rec) ELSE rec,
                          IF micStop THEN NoTimer ELSE autoSendTimer)

(***************************************************************************)
(* The speech walk: the async function pollMessages starts after taking    *)
(* the lock.  A walk w speaks Head(w.q); w.st tells where its speak() call *)
(* is: "fetch" (awaiting the provider's response), "playing" / "paused"    *)
(* (awaiting the audio element's onended), "hung" (the audio element was   *)
(* stopped by useSpeak.stop, so its promise never settles).  w.stopped     *)
(* tells that a Stop handler ran during the walk.                          *)
(***************************************************************************)
\* the walk's loop with a finally that leaves isSpeakingRef as it is
AdvanceNoRelease(w) ==
    LET rest == Tail(w.q)
        more == rest # <<>> /\ ~cancelSpeechRef
    IN  /\ walks' = IF more
                    THEN (walks \ {w}) \cup {[w EXCEPT !.q = rest, !.st = "fetch"]}
                    ELSE walks \ {w}
        /\ speakLog' = IF more THEN Append(speakLog, Head(rest)) ELSE speakLog
        /\ isPlaying' = IF more THEN isPlaying ELSE FALSE
        /\ isSpeakingRef' = isSpeakingRef
        /\ restartTimers' = IF ~more /\ w.d /\ ~cancelSpeechRef
                            THEN restartTimers + 1
                            ELSE restartTimers

\* a loop that leaves after its first message
AdvanceOnce(w) ==
    /\ walks' = walks \ {w}
    /\ speakLog' = speakLog
    /\ isPlaying' = FALSE
    /\ isSpeakingRef' = FALSE
    /\ restartTimers' = IF w.d /\ ~cancelSpeechRef THEN restartTimers + 1 ELSE restartTimers

\* speak() settled for Head(w.q): the loop goes on to the next message, or the
\* walk ends through its finally
Advance(w) ==
    LET rest == Tail(w.q)
        more == rest # <<>> /\ ~cancelSpeechRef
    IN  /\ walks' = IF more
                    THEN (walks \ {w}) \cup {[w EXCEPT !.q = rest, !.st = "fetch"]}
                    ELSE walks \ {w}
        /\ speakLog' = IF more THEN Append(speakLog, Head(rest)) ELSE speakLog
        /\ isPlaying' = IF more THEN isPlaying ELSE FALSE
        /\ isSpeakingRef' = IF more THEN isSpeakingRef ELSE FALSE
        /\ restartTimers' = IF ~more /\ w.d /\ ~cancelSpeechRef
                            THEN restartTimers + 1
                            ELSE restartTimers

\* playAudioFromResponse: the audio element is created and starts playing
WalkAudioStart ==
    /\ UNCHANGED <<userActs, ctlVars, lifeVars, hsVars, attVars, tts, voiceVars>>
    /\ \E w \in walks :
        /\ w.st = "fetch"
        /\ walks' = (walks \ {w}) \cup {[w EXCEPT !.st = "playing"]}
        /\ audioRef' = w.wid
        /\ UNCHANGED <<serverVars, pollVars, micVars>>
        /\ UNCHANGED <<isMuted, drivingMode, spokenMessageIds, isSpeakingRef,
                       cancelSpeechRef, isPlaying, isPaused, walkCount, speakLog,
                       dropped, rejected, cancelResetTimer>>

\* audio.onended / audio.onerror: the reference is cleared and speak() settles
\* (a rejection is caught by the walk)
WalkAudioDone ==
    /\ UNCHANGED <<userActs, ctlVars, lifeVars, hsVars, attVars, tts, voiceVars>>
    /\ \E w \in walks :
        /\ w.st = "playing"
        /\ audioRef' = None
        /\ Advance(w)
        /\ UNCHANGED <<serverVars, pollVars, isMuted, drivingMode, spokenMessageIds,
                       cancelSpeechRef, isPaused, walkCount, dropped, rejected, cancelResetTimer,
                       isSending, isTyping, sends, sentLog, heard, inputText, elapsed>>
        /\ NoEffects

\* a walk without the catch of its loop: the rejection leaves the loop and
\* the walk ends through its finally
WalkAudioError ==
    /\ UNCHANGED <<userActs, ctlVars, lifeVars, hsVars, attVars, tts, voiceVars>>
    /\ \E w \in walks :
        /\ w.st = "playing"
        /\ audioRef' = None
        /\ rejected' = Append(rejected, Head(w.q))
        /\ AdvanceOnce(w)
        /\ UNCHANGED <<serverVars, pollVars, isMuted, drivingMode, spokenMessageIds,
                       cancelSpeechRef, isPaused, walkCount, dropped, cancelResetTimer,
                       isSending, isTyping, sends, sentLog, heard, inputText, elapsed>>
        /\ NoEffects

\* audio.onerror, or audio.play() rejects: the reference is cleared and
\* speak() rejects with the error (it returns the promise of
\* playAudioFromResponse without awaiting it in its try); the catch in the
\* walk's loop logs it and the loop goes on as after WalkAudioDone.  rejected
\* lists the messages whose speak() call rejected.
WalkAudioRejects ==
    /\ UNCHANGED <<userActs, ctlVars, lifeVars, hsVars, attVars, tts, voiceVars>>
    /\ \E w \in walks :
        /\ w.st = "playing"
        /\ audioRef' = None
        /\ rejected' = Append(rejected, Head(w.q))
        /\ Advance(w)
        /\ UNCHANGED <<serverVars, pollVars, isMuted, drivingMode, spokenMessageIds,
                       cancelSpeechRef, isPaused, walkCount, dropped, cancelResetTimer,
                       isSending, isTyping, sends, sentLog, heard, inputText, elapsed>>
        /\ NoEffects

\* speak() returns without an audio element.  With browser: no provider is
\* configured or the request failed, and speak() hands the text to
\* window.speechSynthesis (cancel(), then speak(utterance)), which it does not
\* await.  Without: the audio is locked on a mobile device, or the browser
\* has no speechSynthesis, and speak() returns at once.
WalkSpeakReturns ==
    /\ UNCHANGED <<userActs, ctlVars, lifeVars, hsVars, attVars, tts, previews,
                   audioUnlocked>>
    /\ \E w \in walks, browser \in BOOLEAN :
        /\ w.st = "fetch"
        /\ synth' = IF browser THEN Head(w.q) ELSE synth
        /\ Advance(w)
        /\ UNCHANGED <<serverVars, pollVars, isMuted, drivingMode, spokenMessageIds,
                       cancelSpeechRef, isPaused, walkCount, audioRef, dropped, rejected,
                       cancelResetTimer, isSending, isTyping, sends, sentLog, heard, inputText, elapsed>>
        /\ NoEffects

\* the utterance of the browser voice ends (onend)
SynthEnd ==
    /\ synth # None
    /\ synth' = None
    /\ UNCHANGED <<serverVars, pollVars, speechVars, micVars, userActs, ctlVars,
                   lifeVars, hsVars, previews, audioUnlocked, attVars, tts>>

(***************************************************************************)
(* useSpeak.speak as a function of what it finds: the voice profile, the   *)
(* configured providers, the mobile audio lock, the outcome of the request *)
(* to each provider (for Azure: the token request and the synthesis        *)
(* request), the outcome of the playback, and whether the browser has      *)
(* speechSynthesis.                                                        *)
(***************************************************************************)
LEGACY_VOICE_MAP(profile) ==
    IF profile = "jenny-friendly" THEN "azure-jenny-friendly" ELSE profile

\* VOICE_PROFILES[id].provider, or "undefined" for an id the table lacks
ProviderOf(profile) ==
    CASE profile = "azure-jenny-friendly" -> "azure"
      [] profile = "openai-alloy" -> "openai"
      [] OTHER -> "undefined"

Profiles == {"azure-jenny-friendly", "jenny-friendly", "openai-alloy", "custom"}

Configs ==
    [voiceProfile : Profiles, hasAzureSpeech : BOOLEAN, hasOpenAI : BOOLEAN,
     locked : BOOLEAN, azureOk : BOOLEAN, openAIOk : BOOLEAN, playOk : BOOLEAN,
     speechSynthesis : BOOLEAN]

\* the branch of the try block that speak() takes
Requested(c) ==
    LET provider == ProviderOf(LEGACY_VOICE_MAP(c.voiceProfile))
    IN  CASE provider = "openai" /\ c.hasOpenAI -> "openai"
          [] provider = "azure" /\ c.hasAzureSpeech -> "azure"
          [] provider = "openai" /\ ~c.hasOpenAI /\ c.hasAzureSpeech -> "azure"
          [] provider = "azure" /\ ~c.hasAzureSpeech /\ c.hasOpenAI -> "openai"
          [] OTHER -> "none"

RequestOk(c, provider) ==
    CASE provider = "openai" -> c.openAIOk
      [] provider = "azure" -> c.azureOk
      [] OTHER -> FALSE

\* requests: the providers speak() sent a request to; out: what was heard;
\* settled: how the promise of speak() settled
Speak(c) ==
    LET first == Requested(c)
    IN  IF c.locked /\ (c.hasAzureSpeech \/ c.hasOpenAI)
        THEN [requests |-> <<>>, out |-> "none", settled |-> "resolved"]
        ELSE IF first # "none" /\ RequestOk(c, first)
        THEN [requests |-> <<first>>,
              out |-> IF c.playOk THEN "audio" ELSE "none",
              settled |-> IF c.playOk THEN "resolved" ELSE "rejected"]
        ELSE [requests |-> IF first = "none" THEN <<>> ELSE <<first>>,
              out |-> IF c.speechSynthesis THEN "browser" ELSE "none",
              settled |-> "resolved"]

\* speak(text) is called and settles
SpeakCall ==
    /\ ~tts.called
    /\ tts' = [called |-> TRUE, c |-> tts.c, r |-> Speak(tts.c)]
    /\ UNCHANGED <<serverVars, pollVars, speechVars, micVars, userActs, ctlVars,
                   lifeVars, hsVars, voiceVars, attVars>>

(***************************************************************************)
(* useSpeak: stop, pause, resume act on the audio element in audioRef.     *)
(***************************************************************************)
SetAudio(from, to) ==
    {IF w.wid = audioRef /\ w.st = from THEN [w EXCEPT !.st = to] ELSE w : w \in walks}

AfterStop ==
    {IF w.wid = audioRef
     THEN [w EXCEPT !.st = "hung", !.stopped = TRUE]
     ELSE [w EXCEPT !.stopped = TRUE] : w \in walks}

\* the same on the audio element of a speak() call made outside a walk, which
\* audioRef holds as -pid; a call whose audio was stopped never settles
SetPreview(from, to) ==
    {IF -p.pid = audioRef /\ p.st = from THEN [p EXCEPT !.st = to] ELSE p : p \in previews}

PreviewsAfterStop == {p \in previews : -p.pid # audioRef}
AfterPause == SetAudio("playing", "paused")
AfterResume == SetAudio("paused", "playing")

(***************************************************************************)
(* speak() outside the walk: the test utterance of unlockAudio and the     *)
(* voice preview of the settings panel.  The panel offers the preview when *)
(* a speech provider is configured.  A call p in previews is at p.st:      *)
(* "fetch", "playing" or "paused"; with p.next the preview utterance       *)
(* follows the test utterance (the preview button awaits unlockAudio).     *)
(* The device is not a mobile one.                                         *)
(***************************************************************************)
\* speak(text) is called by a click handler: the request is sent
SpeakOutside(next) ==
    /\ previews' = previews \cup {[pid |-> userActs + 1, st |-> "fetch", next |-> next]}
    /\ UNCHANGED synth

\* the Enable Voice Output button (settings panel, audio prompt): unlockAudio
\* sets audioUnlocked and speaks 'Voice enabled'
UnlockAudio ==
    /\ UserAct
    /\ ~drivingMode /\ ~audioUnlocked
    /\ audioUnlocked' = TRUE
    /\ SpeakOutside(FALSE)
    /\ UNCHANGED <<serverVars, pollVars, speechVars, micVars>>

\* the preview button next to the voice selection: unlockAudio first unless
\* the audio is unlocked, then speak(the sample sentence)
VoicePreview ==
    /\ UserAct
    /\ ~drivingMode
    /\ audioUnlocked' = TRUE
    /\ SpeakOutside(~audioUnlocked)
    /\ UNCHANGED <<serverVars, pollVars, speechVars, micVars>>

\* playAudioFromResponse for a call outside the walk: audioRef now holds its
\* audio element
PreviewAudioStart ==
    /\ \E p \in previews :
        /\ p.st = "fetch"
        /\ previews' = (previews \ {p}) \cup {[p EXCEPT !.st = "playing"]}
        /\ audioRef' = -p.pid
    /\ UNCHANGED <<serverVars, pollVars, micVars, userActs, ctlVars, lifeVars, hsVars,
                   attVars, tts, synth, audioUnlocked>>
    /\ UNCHANGED <<isMuted, drivingMode, spokenMessageIds, isSpeakingRef,
                   cancelSpeechRef, isPlaying, isPaused, walks, walkCount, speakLog,
                   dropped, rejected, cancelResetTimer>>

\* the call settles: its audio ended or failed (audioRef is cleared), or the
\* request failed and the browser voice took the text; after the test
\* utterance of the preview button the sample sentence is spoken
PreviewSettles ==
    /\ \E p \in previews, heard0 \in BOOLEAN :
        /\ IF heard0
           THEN p.st = "playing" /\ audioRef' = None /\ UNCHANGED synth
           ELSE p.st = "fetch" /\ synth' = -p.pid /\ UNCHANGED audioRef
        /\ previews' = IF p.next
                       THEN (previews \ {p}) \cup {[p EXCEPT !.st = "fetch", !.next = FALSE]}
                       ELSE previews \ {p}
    /\ UNCHANGED <<serverVars, pollVars, micVars, userActs, ctlVars, lifeVars, hsVars,
                   attVars, tts, audioUnlocked>>
    /\ UNCHANGED <<isMuted, drivingMode, spokenMessageIds, isSpeakingRef,
                   cancelSpeechRef, isPlaying, isPaused, walks, walkCount, speakLog,
                   dropped, rejected, cancelResetTimer>>

(***************************************************************************)
(* User actions on speech output.  The audio menu and the settings panel   *)
(* belong to the chat window, which the driving-mode modal covers; the     *)
(* modal's button is handleDrivingModeStop while isPlaying.  The audio     *)
(* menu renders Play while isMuted or isPaused, Pause while neither, and   *)
(* Stop while not isMuted.                                                 *)
(***************************************************************************)
HandleAudioStop ==
    /\ UserAct
    /\ ~isMuted
    /\ synth' = None
    /\ previews' = PreviewsAfterStop
    /\ UNCHANGED audioUnlocked
    /\ ~drivingMode
    /\ isMuted' = TRUE
    /\ isPaused' = FALSE
    /\ cancelSpeechRef' = TRUE
    /\ isSpeakingRef' = FALSE
    /\ isPlaying' = FALSE
    /\ walks' = AfterStop
    /\ audioRef' = None
    /\ UNCHANGED <<serverVars, pollVars, drivingMode, spokenMessageIds, walkCount,
                   speakLog, dropped, rejected, cancelResetTimer, restartTimers, isSending,
                   isTyping, sends, sentLog, heard, inputText, elapsed>>
    /\ NoEffects

HandleAudioPlay ==
    /\ MenuAct
    /\ isMuted \/ isPaused
    /\ previews' = SetPreview("paused", "playing")
    /\ UNCHANGED <<synth, audioUnlocked>>
    /\ ~drivingMode
    /\ isMuted' = FALSE
    /\ isPaused' = FALSE
    /\ cancelSpeechRef' = FALSE
    /\ isSpeakingRef' = FALSE
    /\ walks' = AfterResume
    /\ UNCHANGED <<serverVars, pollVars, micVars>>
    /\ UNCHANGED <<drivingMode, spokenMessageIds, isPlaying, walkCount, audioRef,
                   speakLog, dropped, rejected, cancelResetTimer>>

HandleAudioPause ==
    /\ UserAct
    /\ ~isMuted /\ ~isPaused
    /\ previews' = SetPreview("playing", "paused")
    /\ UNCHANGED <<synth, audioUnlocked>>
    /\ ~drivingMode
    /\ isPaused' = TRUE
    /\ walks' = AfterPause
    /\ UNCHANGED <<serverVars, pollVars, micVars>>
    /\ UNCHANGED <<isMuted, drivingMode, spokenMessageIds, isSpeakingRef,
                   cancelSpeechRef, isPlaying, walkCount, audioRef, speakLog, dropped, rejected,
                   cancelResetTimer>>

HandleDrivingModeStop ==
    /\ DriveAct
    /\ synth' = None
    /\ previews' = PreviewsAfterStop
    /\ UNCHANGED audioUnlocked
    /\ drivingMode /\ isPlaying /\ ~isSending
    /\ cancelSpeechRef' = TRUE
    /\ walks' = AfterStop
    /\ audioRef' = None
    /\ isPlaying' = FALSE
    /\ isSpeakingRef' = FALSE
    \* setTimeout(.., 100) resets cancelSpeechRef, setTimeout(.., 500) restarts the mic
    /\ cancelResetTimer' = TRUE
    /\ restartTimers' = restartTimers + 1
    /\ UNCHANGED <<serverVars, pollVars, isMuted, drivingMode, spokenMessageIds,
                   isPaused, walkCount, speakLog, dropped, rejected, isSending, isTyping,
                   sends, sentLog, heard, inputText, elapsed>>
    /\ NoEffects

\* the 100 ms timeout of handleDrivingModeStop
CancelResetFire ==
    /\ UNCHANGED <<userActs, ctlVars, lifeVars, hsVars, attVars, tts, voiceVars>>
    /\ cancelResetTimer
    /\ cancelResetTimer' = FALSE
    /\ cancelSpeechRef' = FALSE
    /\ UNCHANGED <<serverVars, pollVars, micVars>>
    /\ UNCHANGED <<isMuted, drivingMode, spokenMessageIds, isSpeakingRef, isPlaying,
                   isPaused, walks, walkCount, audioRef, speakLog, dropped, rejected>>

\* the "Enable voice output" checkbox of the settings panel
ToggleMute ==
    /\ UserAct
    /\ UNCHANGED voiceVars
    /\ ~drivingMode
    /\ isMuted' = ~isMuted
    /\ UNCHANGED <<serverVars, pollVars, micVars>>
    /\ UNCHANGED <<drivingMode, spokenMessageIds, isSpeakingRef, cancelSpeechRef,
                   isPlaying, isPaused, walks, walkCount, audioRef, speakLog, dropped, rejected,
                   cancelResetTimer>>

\* the car button, the settings checkbox, the modal's close button
ToggleDrivingMode ==
    /\ DriveAct
    /\ UNCHANGED voiceVars
    /\ drivingMode' = ~drivingMode
    /\ UNCHANGED <<serverVars, pollVars, isMuted, spokenMessageIds, isSpeakingRef,
                   cancelSpeechRef, isPlaying, isPaused, walks, walkCount, audioRef,
                   speakLog, dropped, rejected, cancelResetTimer, restartTimers, isSending,
                   isTyping, sends, sentLog, heard, inputText, elapsed>>
    /\ NoEffects

\* handleNewChat: the transcript, seenMessageIds and the stored conversation
\* are cleared, setTimeout(.., 500) calls triggerConversationStart
NewChat ==
    /\ teardown = "none"
    /\ userActs < MaxUserActs
    /\ userActs' = userActs + 1
    /\ messages' = <<>>
    /\ seenMessageIds' = {}
    /\ stored' = ClearConversationState
    /\ startTimers' = startTimers + 1
    /\ UNCHANGED <<serverVars, watermark, polls, pollHist, rnd, speechVars, micVars,
                   ctlVars, lifeVars, hsRuns, hsLog, voiceVars, attVars, tts>>

(***************************************************************************)
(* Speech input.  A transcript is the sequence of its characters, a        *)
(* confidence is in hundredths.  The recognition session rec is "idle",    *)
(* "active" (started, listening) or "ending" (stopped or done, its onend   *)
(* still to come); start() throws unless the session is idle.              *)
(***************************************************************************)
\* String.prototype.toLowerCase, on the letters the transcripts use
LowerCase(c) ==
    CASE c = "G" -> "g" [] c = "T" -> "t" [] c = "U" -> "u" [] c = "X" -> "x"
      [] OTHER -> c

ToLowerCase(s) == [i \in 1..Len(s) |-> LowerCase(s[i])]

RECURSIVE TrimStart(_)
TrimStart(s) == IF s # <<>> /\ Head(s) = " " THEN TrimStart(Tail(s)) ELSE s

RECURSIVE TrimEnd(_)
TrimEnd(s) ==
    IF s # <<>> /\ s[Len(s)] = " " THEN TrimEnd(SubSeq(s, 1, Len(s) - 1)) ELSE s

\* String.prototype.trim
Trim(s) == TrimEnd(TrimStart(s))

noiseWords ==
    {<<"n", "o">>, <<"o", "h">>, <<"u", "h">>, <<"u", "m">>, <<"a", "h">>,
     <<"h", "u", "h">>, <<"h", "m", "m">>, <<"y", "e", "a", "h">>,
     <<"t", "h", "e">>, <<"a">>, <<"i">>}

\* `trimmedTranscript.length < 3`
MinLength == 3
\* `confidence < 0.5`, in hundredths
MinConfidence == 50

\* isLikelyNoise on the transcript as delivered (no trim, no toLowerCase)
IsLikelyNoiseUntrimmed(transcript, confidence) ==
    \/ transcript \in noiseWords
    \/ Len(transcript) < MinLength
    \/ (confidence # Undefined /\ confidence < MinConfidence)

\* onresult: isLikelyNoise
IsLikelyNoise(transcript, confidence) ==
    LET trimmedTranscript == ToLowerCase(Trim(transcript))
    IN  \/ trimmedTranscript \in noiseWords
        \/ Len(trimmedTranscript) < MinLength
        \/ (confidence # Undefined /\ confidence < MinConfidence)

\* the final results a session may deliver
Transcripts ==
    {<<"u", "m">>, <<" ", "U", "m", " ">>, <<"T", "h", "e">>, <<" ", "o", "k", " ">>,
     <<"G", "o", " ", "o", "n">>}
Confidences == {Undefined, 49, 50}
Results == {[text |-> t, conf |-> c] : t \in Transcripts, c \in Confidences}

\* the text the user types into the input box
TypedText == <<"H", "i">>

\* handleDrivingModeStart: the session is started; start() on a session that is
\* not idle throws before setIsListening(true)
HandleDrivingModeStart ==
    IF rec = "idle" THEN Effects(TRUE, "active", autoSendTimer) ELSE NoEffects

\* the 1000 ms timeout of the walk's finally, the 500 ms timeout of
\* handleDrivingModeStop
RestartTimerFire ==
    /\ UNCHANGED <<userActs, ctlVars, lifeVars, hsVars, attVars, tts, voiceVars>>
    /\ restartTimers > 0
    /\ restartTimers' = restartTimers - 1
    /\ UNCHANGED <<serverVars, pollVars, speechVars, isSending, isTyping, sends,
                   sentLog, heard, inputText, elapsed>>
    /\ HandleDrivingModeStart

\* the modal's button while nothing plays
MicClick ==
    /\ DriveAct
    /\ UNCHANGED voiceVars
    /\ drivingMode /\ ~isPlaying /\ ~isSending
    /\ UNCHANGED <<serverVars, pollVars, speechVars, restartTimers, isSending,
                   isTyping, sends, sentLog, heard, inputText, elapsed>>
    /\ HandleDrivingModeStart

\* the 500 ms timeout of the auto-start effect; a start() that throws is caught
AutoStartFire ==
    /\ UNCHANGED <<userActs, ctlVars, lifeVars, hsVars, attVars, tts, voiceVars>>
    /\ autoStartTimer
    /\ UNCHANGED <<serverVars, pollVars, speechVars, restartTimers, isSending,
                   isTyping, sends, sentLog, heard, inputText, elapsed>>
    /\ IF rec = "idle"
       THEN Effects(TRUE, "active", autoSendTimer)
       ELSE /\ autoStartTimer' = FALSE
            /\ UNCHANGED <<rec, isListening, autoSendTimer, recClosure>>

\* recognition.onresult with a final result (continuous is false: the session
\* ends after it).  An interim result only writes transcribedText.
RecResult(results) ==
    /\ UNCHANGED <<userActs, ctlVars, lifeVars, hsVars, attVars, tts, voiceVars>>
    /\ rec = "active"
    /\ UNCHANGED <<serverVars, pollVars, speechVars, restartTimers, isSending,
                   isTyping, sends, sentLog, elapsed>>
    /\ Len(heard) < MaxResults
    /\ \E r \in results :
        /\ heard' = Append(heard, r)
        /\ IF recClosure.d
           THEN IF IsLikelyNoise(r.text, r.conf)
                THEN UNCHANGED inputText /\ Effects(isListening, "ending", autoSendTimer)
                ELSE inputText' = r.text /\ Effects(FALSE, "ending", r)
           ELSE inputText' = r.text /\ Effects(FALSE, "ending", autoSendTimer)

\* recognition.onend (after stop(), a final result, an error or silence)
RecEnd ==
    /\ UNCHANGED <<userActs, ctlVars, lifeVars, hsVars, attVars, tts, voiceVars>>
    /\ rec \in {"active", "ending"}
    /\ UNCHANGED <<serverVars, pollVars, speechVars, restartTimers, isSending,
                   isTyping, sends, sentLog, heard, inputText, elapsed>>
    /\ Effects(FALSE, "idle", autoSendTimer)

\* sendMessage(text) as the render whose isSending is `sending` defined it;
\* fallback is isSending after a call that returned at once; auto tells that
\* the auto-send timer made the call (its finally clears the input box)
SendMessage(text, sending, fallback, auto) ==
    IF Trim(text) = <<>> \/ sending
    THEN /\ isSending' = fallback
         /\ UNCHANGED <<messages, rnd, isTyping, sends>>
    ELSE /\ messages' = Append(messages, [id |-> -(rnd + 1), pos |-> 0, isUser |-> TRUE,
                                          text |-> text, att |-> "none",
                                          speakText |-> ""])
         /\ rnd' = rnd + 1
         /\ isTyping' = TRUE
         /\ isSending' = TRUE
         /\ sends' = sends \cup {[id |-> -(rnd + 1), auto |-> auto]}

\* the 2000 ms auto-send timeout: the session is stopped and the transcript
\* sent with the sendMessage the recognition effect captured; the callback's
\* finally resets isSending when sendMessage returned at once
AutoSendFire ==
    /\ UNCHANGED <<userActs, ctlVars, lifeVars, hsVars, attVars, tts, voiceVars>>
    /\ autoSendTimer # NoTimer
    /\ elapsed' = Append(elapsed, autoSendTimer)
    /\ SendMessage(autoSendTimer.text, recClosure.sending, FALSE, TRUE)
    /\ sentLog' = IF sends' # sends THEN Append(sentLog, autoSendTimer) ELSE sentLog
    /\ inputText' = IF sends' # sends THEN inputText ELSE <<>>
    /\ UNCHANGED <<serverVars, watermark, polls, pollHist, seenMessageIds, stored,
                   speechVars, restartTimers, heard>>
    /\ Effects(FALSE, StopRec(rec), NoTimer)

\* handleSendMessage: the send button or Enter, with text typed in the chat
\* window's input box (which the driving-mode modal covers)
TypedSend ==
    /\ DriveAct
    /\ UNCHANGED voiceVars
    /\ ~drivingMode
    /\ inputText' = TypedText
    /\ SendMessage(TypedText, isSending, isSending, FALSE)
    /\ UNCHANGED <<serverVars, watermark, polls, pollHist, seenMessageIds, stored,
                   speechVars, restartTimers, sentLog, heard, elapsed>>
    /\ NoEffects

\* toggleListening: the microphone button of the chat window (disabled while
\* isSending) stops the session that listens, or starts one
ToggleListening ==
    /\ DriveAct
    /\ UNCHANGED voiceVars
    /\ ~drivingMode /\ ~isSending
    /\ UNCHANGED <<serverVars, pollVars, speechVars, restartTimers, isSending,
                   isTyping, sends, sentLog, heard, inputText, elapsed>>
    /\ IF isListening
       THEN Effects(FALSE, StopRec(rec), NoTimer)
       ELSE HandleDrivingModeStart

\* handleSendMessage with what the input box holds: the send button is
\* disabled while isSending or while the box is blank
SendClick ==
    /\ DriveAct
    /\ UNCHANGED voiceVars
    /\ ~drivingMode /\ ~isSending /\ Trim(inputText) # <<>>
    /\ SendMessage(inputText, isSending, isSending, FALSE)
    /\ UNCHANGED <<serverVars, watermark, polls, pollHist, seenMessageIds, stored,
                   speechVars, restartTimers, sentLog, heard, inputText, elapsed>>
    /\ NoEffects

\* chatService.sendMessage settles: posted (the conversation holds the user's
\* activity, the input box is cleared) or failed; the finally blocks reset
\* isSending, and the one of the auto-send callback clears the input box
SendDone ==
    /\ UNCHANGED <<userActs, ctlVars, lifeVars, hsVars, attVars, tts, voiceVars>>
    /\ \E s \in sends, ok \in BOOLEAN :
        /\ sends' = sends \ {s}
        /\ isSending' = FALSE
        /\ log' = IF ok THEN Append(log, MakeActivity(UserText, Len(log) + 1, TRUE)) ELSE log
        /\ inputText' = IF ok \/ s.auto THEN <<>> ELSE inputText
        /\ UNCHANGED <<pollVars, speechVars, restartTimers, isTyping, sentLog,
                       heard, elapsed>>
        /\ NoEffects

(***************************************************************************)
(* useAttachments.  A file is its name's last segment ext (the characters  *)
(* after the last dot), its MIME type and its size in bytes.  An           *)
(* attachment holds its file and len, the length of its base64 data URL.   *)
(* addCall is the addFiles call in progress: it awaits the data of         *)
(* files[i]; newAttachments and errors are the locals of the call.         *)
(***************************************************************************)
\* DEFAULT_OPTIONS.maxFileSize, 3.5 * 1024 * 1024
maxFileSize == 7 * 512 * 1024
\* DEFAULT_OPTIONS.maxFiles
maxFiles == 5

\* the keys of ALLOWED_TYPES the files of the model use
AllowedMime == {"image/png", "application/pdf", "text/plain"}
\* Object.values(ALLOWED_TYPES).flat(), without the dot
AllowedExt == {<<"p", "n", "g">>, <<"p", "d", "f">>, <<"t", "x", "t">>}
IMAGE_TYPES == {"image/png"}

\* isAllowedType: the MIME type, or the lower-cased extension as a fallback
IsAllowedType(file) ==
    \/ file.type \in AllowedMime
    \/ ToLowerCase(file.ext) \in AllowedExt

\* `file.size > opts.maxFileSize * 2`
TooLargeBefore(file) == file.size > maxFileSize * 2

\* `finalSize > opts.maxFileSize` with finalSize = base64.length * 0.75
TooLargeAfter(len) == 3 * len > 4 * maxFileSize

\* the limit test on the pending attachments alone
OverLimitPending(pending, n) == pending > maxFiles

\* `attachments.length + fileArray.length > opts.maxFiles`
OverLimit(pending, n) == pending + n > maxFiles

\* the length of the MIME type in the data URL (a file without type is read
\* as application/octet-stream)
MimeLen(type) ==
    CASE type = "image/png" -> 9
      [] type = "application/pdf" -> 15
      [] type = "text/plain" -> 10
      [] type = "application/x-msdownload" -> 24
      [] OTHER -> 24

\* readFileAsBase64: the length of "data:<type>;base64,<base64 of the bytes>"
DataUrlLen(file) == 5 + MimeLen(file.type) + 8 + 4 * ((file.size + 2) \div 3)

File(ext, type, size) == [ext |-> ext, type |-> type, size |-> size]

Photo   == File(<<"p", "n", "g">>, "image/png", 2 * maxFileSize)
HugePic == File(<<"p", "n", "g">>, "image/png", 2 * maxFileSize + 1)
Doc     == File(<<"p", "d", "f">>, "application/pdf", 1024)
BigDoc  == File(<<"p", "d", "f">>, "application/pdf", maxFileSize + 1)
Notes   == File(<<"T", "X", "T">>, "", 1024)
Program == File(<<"e", "x", "e">>, "application/x-msdownload", 1024)

Files == {Photo, HugePic, Doc, BigDoc, Notes, Program}

\* the FileLists a user hands over: one or two files, or several documents
Batches ==
    {<<f>> : f \in Files} \cup {<<f, g>> : f \in Files, g \in Files}
        \cup {[i \in 1..n |-> Doc] : n \in 3..MaxBatch}

\* what the await of a file's data settles with: the length of the data URL,
\* or -1 when compressImage / readFileAsBase64 rejects.  A compressed image
\* is a JPEG of any size.
Loaded(file) ==
    IF file.type \in IMAGE_TYPES
    THEN {-1, 1024, (4 * maxFileSize) \div 3, (4 * maxFileSize) \div 3 + 1}
    ELSE {-1, DataUrlLen(file)}

\* the loop of addFiles from file i up to its next await: files that fail the
\* type or the size test are reported and skipped
RECURSIVE RunLoop(_)
RunLoop(c) ==
    IF c.i > Len(c.files) THEN c
    ELSE LET file == c.files[c.i]
         IN  IF ~IsAllowedType(file)
             THEN RunLoop([c EXCEPT !.i = c.i + 1,
                                    !.errors = Append(c.errors, "File type not allowed")])
             ELSE IF TooLargeBefore(file)
             THEN RunLoop([c EXCEPT !.i = c.i + 1,
                                    !.errors = Append(c.errors, "File too large")])
             ELSE c

\* the AddFilesResult
Result(c) ==
    IF c.errors # <<>>
    THEN [success |-> FALSE, error |-> c.errors, added |-> Len(c.newAttachments)]
    ELSE [success |-> TRUE, error |-> <<>>, added |-> Len(c.newAttachments)]

\* the call goes on after the loop ran up to c.i: it awaits files[c.i], or
\* the loop is over, setAttachments appends and the result is returned
Continue(c, pending) ==
    IF c.i > Len(c.files)
    THEN /\ attachments' = attachments \o c.newAttachments
         /\ isProcessing' = FALSE
         /\ addCall' = NoCall
         /\ addLog' = Append(addLog, [files |-> c.files, pending |-> pending,
                                      result |-> Result(c)])
    ELSE /\ addCall' = c
         /\ isProcessing' = TRUE
         /\ UNCHANGED <<attachments, addLog>>

\* the other variables of the model
restVars == <<serverVars, pollVars, speechVars, micVars, userActs, ctlVars, lifeVars,
              hsVars, voiceVars, tts>>

\* handleFileSelect: the user picked files (the attach button is disabled
\* while isSending or isProcessing); addFiles runs to its first await or to
\* its return
AddFiles ==
    /\ ~isProcessing /\ ~isSending
    /\ Len(addLog) < MaxAddCalls
    /\ \E files \in Batches :
          IF OverLimit(Len(attachments), Len(files))
          THEN /\ addLog' = Append(addLog,
                      [files |-> files, pending |-> Len(attachments),
                       result |-> [success |-> FALSE,
                                   error |-> <<"Maximum files allowed">>, added |-> 0]])
               /\ UNCHANGED <<attachments, isProcessing, addCall>>
          ELSE Continue(RunLoop([files |-> files, i |-> 1, newAttachments |-> <<>>,
                                 errors |-> <<>>, pending |-> Len(attachments)]),
                        Len(attachments))
    /\ UNCHANGED restVars

\* compressImage / readFileAsBase64 settles for files[i]: the file is added
\* unless the read failed or the data is too large, and the loop goes on
FileLoaded ==
    /\ addCall # NoCall
    /\ LET file == addCall.files[addCall.i]
       IN  \E len \in Loaded(file) :
             LET c == [addCall EXCEPT !.i = addCall.i + 1]
                 done == IF len = -1
                         THEN [c EXCEPT !.errors = Append(c.errors, "Failed to process file")]
                         ELSE IF TooLargeAfter(len)
                         THEN [c EXCEPT !.errors =
                                    Append(c.errors, "File too large after processing")]
                         ELSE [c EXCEPT !.newAttachments =
                                    Append(c.newAttachments, [file |-> file, len |-> len])]
             IN  Continue(RunLoop(done), addCall.pending)
    /\ UNCHANGED restVars

\* the call after the await of files[c.i] settled with len
LoadSettles(c, len) ==
    LET next == [c EXCEPT !.i = c.i + 1]
    IN  IF len = -1
        THEN [next EXCEPT !.errors = Append(next.errors, "Failed to process file")]
        ELSE IF TooLargeAfter(len)
        THEN [next EXCEPT !.errors = Append(next.errors, "File too large after processing")]
        ELSE [next EXCEPT !.newAttachments =
                  Append(next.newAttachments, [file |-> c.files[c.i], len |-> len])]

\* the ways a call that is at c can reach the end of its loop
RECURSIVE Settled(_)
Settled(c) ==
    IF c.i > Len(c.files) THEN {c}
    ELSE UNION {Settled(RunLoop(LoadSettles(c, len))) : len \in Loaded(c.files[c.i])}

\* addFiles is called while an earlier call awaits the data of a file (the
\* hook has no guard of its own; `attachments.length` is the state of the
\* last render), and the data of its files settles before that of the
\* earlier call: it appends its attachments and calls setIsProcessing(false)
AddFilesOverlapping ==
    /\ addCall # NoCall
    /\ Len(addLog) < MaxAddCalls
    /\ \E files \in Batches :
          IF OverLimit(Len(attachments), Len(files))
          THEN /\ addLog' = Append(addLog,
                      [files |-> files, pending |-> Len(attachments),
                       result |-> [success |-> FALSE,
                                   error |-> <<"Maximum files allowed">>, added |-> 0]])
               /\ UNCHANGED <<attachments, isProcessing, addCall>>
          ELSE \E c \in Settled(RunLoop([files |-> files, i |-> 1,
                                         newAttachments |-> <<>>, errors |-> <<>>,
                                         pending |-> Len(attachments)])) :
                  /\ attachments' = attachments \o c.newAttachments
                  /\ isProcessing' = FALSE
                  /\ addLog' = Append(addLog, [files |-> files,
                                               pending |-> Len(attachments),
                                               result |-> Result(c)])
                  /\ UNCHANGED addCall
    /\ UNCHANGED restVars

\* removeAttachment: the user removes a pending attachment (also while a call
\* is processing)
RemoveAttachment ==
    /\ attachments # <<>>
    /\ \E k \in 1..Len(attachments) :
          attachments' = SubSeq(attachments, 1, k - 1)
                            \o SubSeq(attachments, k + 1, Len(attachments))
    /\ UNCHANGED <<isProcessing, addCall, addLog>>
    /\ UNCHANGED restVars

(***************************************************************************)
(* ChatDirectLineControl.  ctl holds its React state (isInitializing,      *)
(* error, chatService, isReconnected), the secret property, and where      *)
(* initializeChat is: pc is "mount" (the effect has not run), "reconnect"  *)
(* or "start" (awaiting that call of the service) or "done".  found is the *)
(* entry loadConversationState read, loadedAt when, savedState what it     *)
(* returned; status is the status of the reconnect response (0: none yet,  *)
(* -1: the fetch rejected); started tells how startConversation ended.     *)
(***************************************************************************)
\* loadConversationState with `age <= CONVERSATION_EXPIRY_MS`
LoadConversationStateInclusive(entry, t) ==
    IF entry # NoState /\ t - entry.savedAt <= CONVERSATION_EXPIRY_MS
    THEN entry
    ELSE NoState

\* loadConversationState at time t: the state it returns (NoState for null)
LoadConversationState(entry, t) ==
    IF entry # NoState /\ t - entry.savedAt < CONVERSATION_EXPIRY_MS
    THEN entry
    ELSE NoState

\* loadConversationState: an entry it does not return is removed
AfterLoad(entry, t) ==
    IF LoadConversationState(entry, t) = NoState THEN ClearConversationState ELSE entry

\* the statuses a reconnect request can end with; -1: the fetch rejects
Statuses == {200, 403, 404, 500, -1}

\* reconnectConversation returning false for a 404 only
ReconnectedUnlessGone(status) == status # 404

\* reconnectConversation: true iff response.ok
Reconnected(status) == status >= 200 /\ status <= 299

\* a catch block that goes on with the service it has
CatchAndGoOn(c) ==
    [c EXCEPT !.pc = "done", !.chatService = TRUE, !.isInitializing = FALSE]

\* initializeChat: the missing-secret return and the catch block
Catch(c) == [c EXCEPT !.pc = "done", !.error = TRUE, !.isInitializing = FALSE]

\* the render function: ChatWindow is rendered
Rendered(c) == ~c.isInitializing /\ ~c.error /\ c.chatService

\* ChatWindow mounts if ctl' renders it: the poll effect sets its interval,
\* the conversation-start effect its 1000 ms timer unless hasGreeted
\* (initialised to isReconnected)
Mount ==
    /\ interval' = Rendered(ctl')
    /\ startTimers' = IF Rendered(ctl') /\ ~ctl'.isReconnected THEN 1 ELSE 0

\* the effect runs initializeChat up to its first request
InitializeChat ==
    /\ ctl.pc = "mount"
    /\ IF ~ctl.secret
       THEN /\ ctl' = Catch(ctl)
            /\ UNCHANGED <<stored, startCalls>>
       ELSE LET savedState == LoadConversationState(stored, now)
            IN  /\ stored' = AfterLoad(stored, now)
                /\ ctl' = [ctl EXCEPT !.found = stored, !.loadedAt = now,
                                      !.savedState = savedState,
                                      !.pc = IF savedState # NoState
                                             THEN "reconnect" ELSE "start"]
                /\ startCalls' = IF savedState # NoState
                                 THEN startCalls ELSE startCalls + 1
    /\ Mount
    /\ UNCHANGED <<serverVars, watermark, polls, pollHist, seenMessageIds, messages,
                   rnd, speechVars, micVars, userActs, now, conversationId,
                   teardown, hsRuns, hsLog, voiceVars, attVars, tts>>

\* reconnectConversation settles; on false the saved state is cleared and
\* startConversation is called
ReconnectDone ==
    /\ ctl.pc = "reconnect"
    /\ \E status \in Statuses :
          IF Reconnected(status)
          THEN /\ conversationId' = ctl.savedState.conversationId
               /\ watermark' = ctl.savedState.watermark
               /\ ctl' = [ctl EXCEPT !.status = status, !.pc = "done",
                                     !.isReconnected = TRUE, !.chatService = TRUE,
                                     !.isInitializing = FALSE]
               /\ UNCHANGED <<stored, startCalls>>
          ELSE /\ stored' = ClearConversationState
               /\ ctl' = [ctl EXCEPT !.status = status, !.pc = "start"]
               /\ startCalls' = startCalls + 1
               /\ UNCHANGED <<conversationId, watermark>>
    /\ Mount
    /\ UNCHANGED <<serverVars, polls, pollHist, seenMessageIds, messages, rnd,
                   speechVars, micVars, userActs, now, teardown, hsRuns, hsLog, voiceVars, attVars, tts>>

\* startConversation settles: a new, empty conversation whose id is stored, or
\* the throw that the catch block turns into the error state
StartDone ==
    /\ ctl.pc = "start"
    /\ \E ok \in BOOLEAN :
          IF ok
          THEN /\ conversationId' = 1
               /\ log' = <<>>
               /\ stored' = SaveConversationState(1, watermark)
               /\ ctl' = [ctl EXCEPT !.started = "ok", !.pc = "done",
                                     !.chatService = TRUE, !.isInitializing = FALSE]
          ELSE /\ ctl' = Catch([ctl EXCEPT !.started = "rejected"])
               /\ UNCHANGED <<conversationId, log, stored>>
    /\ Mount
    /\ UNCHANGED <<watermark, polls, pollHist, seenMessageIds, messages, rnd,
                   speechVars, micVars, userActs, now, startCalls, teardown,
                   hsRuns, hsLog, voiceVars, attVars, tts>>

(***************************************************************************)
(* The conversation-start handshake, CopilotChatService                    *)
(* .triggerConversationStart.  A call r in hsRuns is at r.st: "update"     *)
(* (the conversationUpdate POST is in flight), "wait" (the 2000 ms grace   *)
(* timer is pending), "check" (the GET of the activities is in flight) or  *)
(* "greeting" (the POST of the hidden greeting is in flight).  hsLog holds *)
(* the events of the calls: "conversationUpdate" and "greeting" when the   *)
(* POST is sent, "updateFailed", "checkFailed", and "observed" with the    *)
(* length hi of the conversation the check response showed.                *)
(***************************************************************************)
UpdateActivity == Shape("user", "conversationUpdate", FALSE, "", "none")
HiddenGreeting == Shape("user", "message", TRUE, "Hi", "none")

Event(n, ev, hi) == [n |-> n, ev |-> ev, hi |-> hi]

\* calls of triggerConversationStart made so far
Handshakes == Cardinality({i \in 1..Len(hsLog) : hsLog[i].ev = "conversationUpdate"})

\* a check that counts every activity not sent by the user
AnyBotActivity(a) == a.from # "user"

\* the check's filter: `a.from.id !== 'user' && a.type === 'message'`
BotReply(a) == a.from # "user" /\ a.type = "message"

\* the 1000 ms timer of the conversation-start effect or the 500 ms timer of
\* handleNewChat fires: triggerConversationStart sends the conversationUpdate
TriggerConversationStart ==
    /\ startTimers > 0
    /\ Handshakes < MaxHandshakes
    /\ startTimers' = startTimers - 1
    /\ hsRuns' = hsRuns \cup {[n |-> Handshakes + 1, st |-> "update"]}
    /\ hsLog' = Append(hsLog, Event(Handshakes + 1, "conversationUpdate", 0))
    /\ UNCHANGED <<serverVars, pollVars, speechVars, micVars, userActs, ctlVars,
                   lifeVars, voiceVars, attVars, tts>>

\* the conversationUpdate POST settles: ok, and the 2000 ms wait begins; not
\* ok or rejected, and the hidden greeting is sent
UpdateDone ==
    /\ \E r \in hsRuns, ok \in BOOLEAN :
        /\ r.st = "update"
        /\ IF ok
           THEN /\ log' = Append(log, MakeActivity(UpdateActivity, Len(log) + 1, TRUE))
                /\ hsRuns' = (hsRuns \ {r}) \cup {[r EXCEPT !.st = "wait"]}
                /\ UNCHANGED hsLog
           ELSE /\ hsRuns' = (hsRuns \ {r}) \cup {[r EXCEPT !.st = "greeting"]}
                /\ hsLog' = hsLog \o <<Event(r.n, "updateFailed", 0),
                                       Event(r.n, "greeting", 0)>>
                /\ UNCHANGED log
    /\ UNCHANGED <<pollVars, speechVars, micVars, userActs, ctlVars, lifeVars,
                   startTimers, voiceVars, attVars, tts>>

\* the 2000 ms timer fires: the activities of the conversation are requested
GraceElapsed ==
    /\ \E r \in hsRuns :
        /\ r.st = "wait"
        /\ hsRuns' = (hsRuns \ {r}) \cup {[r EXCEPT !.st = "check"]}
    /\ UNCHANGED <<serverVars, pollVars, speechVars, micVars, userActs, ctlVars,
                   lifeVars, startTimers, hsLog, voiceVars, attVars, tts>>

\* the check settles: with a bot message among all activities of the
\* conversation the call returns; without one, or when the request failed,
\* the hidden greeting is sent
CheckDone ==
    /\ \E r \in hsRuns, ok \in BOOLEAN :
        /\ r.st = "check"
        /\ IF ok
           THEN IF SelectSeq(log, BotReply) # <<>>
                THEN /\ hsRuns' = hsRuns \ {r}
                     /\ hsLog' = Append(hsLog, Event(r.n, "observed", Len(log)))
                ELSE /\ hsRuns' = (hsRuns \ {r}) \cup {[r EXCEPT !.st = "greeting"]}
                     /\ hsLog' = hsLog \o <<Event(r.n, "observed", Len(log)),
                                            Event(r.n, "greeting", 0)>>
           ELSE /\ hsRuns' = (hsRuns \ {r}) \cup {[r EXCEPT !.st = "greeting"]}
                /\ hsLog' = hsLog \o <<Event(r.n, "checkFailed", 0),
                                       Event(r.n, "greeting", 0)>>
    /\ UNCHANGED <<serverVars, pollVars, speechVars, micVars, userActs, ctlVars,
                   lifeVars, startTimers, voiceVars, attVars, tts>>

\* the greeting POST settles: ok, and the conversation holds the marked user
\* message; otherwise triggerConversationStart throws and its caller logs
GreetingDone ==
    /\ \E r \in hsRuns, ok \in BOOLEAN :
        /\ r.st = "greeting"
        /\ hsRuns' = hsRuns \ {r}
        /\ log' = IF ok
                  THEN Append(log, MakeActivity(HiddenGreeting, Len(log) + 1, TRUE))
                  ELSE log
    /\ UNCHANGED <<pollVars, speechVars, micVars, userActs, ctlVars, lifeVars,
                   startTimers, hsLog, voiceVars, attVars, tts>>

(***************************************************************************)
(* Teardown.                                                               *)
(***************************************************************************)
\* ChatWindow is unmounted: the host clears the secret property, the effect of
\* the Control runs initializeChat, which sets the error, and the render
\* function returns the error element.  React runs the cleanups of the
\* window's effects: clearInterval of the poll effect, recognition.stop() and
\* clearTimeout(autoSendTimerRef) of the recognition effect, clearTimeout of
\* the auto-start effect.  The component's state is discarded (the model
\* keeps the initial values); its refs, the timeouts set by handlers and the
\* requests in flight stay.
Unmount ==
    /\ teardown = "none"
    /\ Rendered(ctl)
    /\ teardown' = "unmounted"
    /\ ctl' = Catch([ctl EXCEPT !.secret = FALSE])
    /\ interval' = FALSE
    /\ rec' = StopRec(rec)
    /\ autoSendTimer' = NoTimer
    /\ autoStartTimer' = FALSE
    /\ isListening' = FALSE
    /\ drivingMode' = FALSE
    /\ recClosure' = [d |-> FALSE, sending |-> FALSE]
    /\ isSending' = FALSE
    /\ isTyping' = FALSE
    /\ isPlaying' = FALSE
    /\ isPaused' = FALSE
    /\ messages' = <<>>
    /\ attachments' = <<>>
    /\ isProcessing' = FALSE
    /\ audioUnlocked' = FALSE
    /\ inputText' = <<>>
    /\ UNCHANGED <<serverVars, watermark, polls, pollHist, seenMessageIds, rnd, stored,
                   isMuted, spokenMessageIds, isSpeakingRef, cancelSpeechRef, walks,
                   walkCount, audioRef, speakLog, dropped, rejected, cancelResetTimer,
                   restartTimers, sends, sentLog, heard, elapsed, userActs, now,
                   conversationId, startCalls, hsVars, synth, previews, addCall, addLog, tts>>

\* the host calls destroy() on the control: the method is empty, the React
\* root stays mounted
Destroy ==
    /\ teardown = "none"
    /\ teardown' = "destroyed"
    /\ UNCHANGED <<serverVars, pollVars, speechVars, micVars, userActs, ctlVars,
                   interval, hsVars, voiceVars, attVars, tts>>

(***************************************************************************)
(* Specifications.                                                         *)
(***************************************************************************)
\* the activities a run draws from: <<shape, whether it carries an id>>
Kinds == {<<BotText, TRUE>>, <<BotText, FALSE>>}

\* The transcript core: the conversation, the poll loop and New Chat, with
\* speech output muted (no speech action writes a transcript variable).
Next ==
    \/ ServerAppend(Kinds, MaxTurns)
    \/ PollTick(MaxPolls, FALSE)
    \/ ServerAnswer
    \/ PollFail
    \/ PollRecv
    \/ NewChat

InitMuted == Init /\ isMuted

Spec == InitMuted /\ [][Next]_vars

\* Speech output in the chat window: polls of bot text messages, the walk, the
\* audio menu and the voice checkbox.
SpeechNext ==
    \/ ServerAppend({<<BotText, TRUE>>}, SpeechPolls)
    \/ PollTick(SpeechPolls, TRUE)
    \/ PollRecv
    \/ NewChat
    \/ WalkAudioStart
    \/ WalkAudioDone
    \/ WalkSpeakReturns
    \/ SynthEnd
    \/ HandleAudioStop
    \/ HandleAudioPlay
    \/ HandleAudioPause
    \/ ToggleMute

SpeechSpec == Init /\ [][SpeechNext]_vars

\* Speech output with failing playback: the walk, the audio element that ends
\* or fails, and Stop in the audio menu.
RejectNext ==
    \/ ServerAppend({<<BotText, TRUE>>}, SpeechPolls)
    \/ PollTick(SpeechPolls, TRUE)
    \/ PollRecv
    \/ WalkAudioStart
    \/ WalkAudioDone
    \/ WalkAudioRejects
    \/ HandleAudioStop

RejectSpec == Init /\ [][RejectNext]_vars

\* One call of speak() in every configuration.
VoiceInit ==
    /\ WindowInit /\ Started /\ isMuted /\ attachments = <<>>
    /\ tts \in {[called |-> FALSE, c |-> c] : c \in Configs}

VoiceNext == SpeakCall

VoiceSpec == VoiceInit /\ [][VoiceNext]_vars

\* New Chat with polls in flight: the interval ticks up to New Chat, so that
\* every poll that answers after New Chat was issued before it.
PollTickFirstChat == userActs = 0 /\ PollTick(MaxPolls, FALSE)

StaleNext ==
    \/ ServerAppend(Kinds, MaxTurns)
    \/ PollTickFirstChat
    \/ ServerAnswer
    \/ PollRecv
    \/ NewChat

StaleSpec == InitMuted /\ [][StaleNext]_vars

\* Speech output after Stop: the walk, Stop and Play of the audio menu, and
\* hands-free mode switched on, which speaks whatever isMuted is.
ResumeNext ==
    \/ ServerAppend({<<BotText, TRUE>>}, SpeechPolls)
    \/ PollTick(SpeechPolls, TRUE)
    \/ PollRecv
    \/ WalkAudioStart
    \/ WalkAudioDone
    \/ HandleAudioStop
    \/ HandleAudioPlay
    \/ ToggleDrivingMode

ResumeSpec == Init /\ [][ResumeNext]_vars

\* Hands-free mode next to speech output: the modal, the recognition session
\* and its timers, the auto-send, polls of bot text messages and the walk.
\* The session delivers one transcript.
Spoken == {[text |-> <<"G", "o", " ", "o", "n">>, conf |-> Undefined]}

DrivingNext ==
    \/ ServerAppend({<<BotText, TRUE>>}, SpeechPolls)
    \/ PollTick(SpeechPolls, TRUE)
    \/ PollRecv
    \/ WalkAudioStart
    \/ WalkAudioDone
    \/ ToggleDrivingMode
    \/ HandleDrivingModeStop
    \/ CancelResetFire
    \/ RestartTimerFire
    \/ MicClick
    \/ AutoStartFire
    \/ RecResult(Spoken)
    \/ RecEnd
    \/ AutoSendFire
    \/ TypedSend
    \/ SendDone

DrivingSpec == InitMuted /\ [][DrivingNext]_vars

\* Speech input on its own: the recognition session with every kind of result,
\* the auto-send timer, typed and auto-sent messages.
HandsFreeNext ==
    \/ ToggleDrivingMode
    \/ MicClick
    \/ AutoStartFire
    \/ RecResult(Results)
    \/ RecEnd
    \/ AutoSendFire
    \/ TypedSend
    \/ SendDone

HandsFreeSpec == InitMuted /\ [][HandsFreeNext]_vars

\* Single-shot speech input: the microphone button of the chat window, the
\* session with every kind of result, and the send button.
SingleShotNext ==
    \/ ToggleListening
    \/ RecResult(Results)
    \/ RecEnd
    \/ SendClick
    \/ SendDone

SingleShotSpec == InitMuted /\ [][SingleShotNext]_vars

\* Adaptive cards: polls of a conversation whose bot turns carry a card with
\* or without a speak property, with body items with and without text, next
\* to a text of the turn or none.
Bodies == UNION {[1..n -> {"", "A", "B"}] : n \in 0..MaxBody}

CardShapes ==
    {CardShape(text, [speak |-> speak, body |-> body]) :
        text \in {"", "Hello"}, speak \in {"", "Say"}, body \in Bodies}

CardKinds == {<<shape, TRUE>> : shape \in CardShapes}

CardNext ==
    \/ ServerAppend(CardKinds, CardTurns)
    \/ PollTick(CardTurns, TRUE)
    \/ PollRecv

CardSpec == InitMuted /\ [][CardNext]_vars

\* Content: polls of a conversation whose bot turns have a text, a sign-in
\* card, an adaptive card (with and without anything to show) or nothing,
\* and an id or none.
ContentShapes ==
    {BotText, BotEmpty,
     Shape("bot", "message", FALSE, "", "signin"),
     Shape("bot", "message", FALSE, "", "card"),
     CardShape("", NoCard)}

ContentKinds == {<<shape, hasId>> : shape \in ContentShapes, hasId \in BOOLEAN}

ContentNext ==
    \/ ServerAppend(ContentKinds, MaxTurns)
    \/ PollTick(SpeechPolls, TRUE)
    \/ PollRecv

ContentSpec == InitMuted /\ [][ContentNext]_vars

\* The filter of getMessages: polls of a conversation that holds turns of the
\* user, turns that are not messages and turns with the silent-greeting
\* marker, with and without text and attachments, next to bot messages.
FilterShapes ==
    {BotText,
     Shape("bot", "message", FALSE, "", "signin"),
     UserText,
     Shape("user", "message", FALSE, "Hi", "card"),
     Shape("user", "message", TRUE, "Hi", "none"),
     Shape("user", "conversationUpdate", FALSE, "", "none"),
     Shape("bot", "typing", FALSE, "Hello", "none"),
     Shape("bot", "event", FALSE, "", "signin"),
     Shape("bot", "message", TRUE, "Hi", "card")}

FilterKinds == {<<shape, TRUE>> : shape \in FilterShapes}

FilterNext ==
    \/ ServerAppend(FilterKinds, SpeechPolls)
    \/ PollTick(SpeechPolls, TRUE)
    \/ PollRecv
    \/ NewChat

FilterSpec == InitMuted /\ [][FilterNext]_vars

\* Initialisation: the Control component mounts with or without a secret and
\* with or without a stored conversation, which was saved at time 0 with a
\* null watermark or with watermark 1 and is now just below, at or above 30
\* minutes of age; then the chat window's poll loop on the conversation.
ControlInit ==
    /\ WindowInit
    /\ isMuted
    /\ stored \in {NoState} \cup
                   {[conversationId |-> 2, watermark |-> w, savedAt |-> 0] : w \in {0, 1}}
    /\ now \in {0, CONVERSATION_EXPIRY_MS - 1, CONVERSATION_EXPIRY_MS,
                 CONVERSATION_EXPIRY_MS + 1}
    /\ log = IF stored = NoState THEN <<>> ELSE <<MakeActivity(BotEmpty, 1, TRUE)>>
    /\ conversationId = 0
    /\ startCalls = 0
    /\ ctl \in {[pc |-> "mount", secret |-> sec, isInitializing |-> TRUE,
                  error |-> FALSE, chatService |-> FALSE, isReconnected |-> FALSE,
                  found |-> NoState, savedState |-> NoState, loadedAt |-> 0,
                  status |-> 0, started |-> "none"] : sec \in BOOLEAN}
    /\ interval = FALSE
    /\ startTimers = 0
    /\ attachments = <<>>
    /\ tts = NoSpeak

InitNext ==
    \/ InitializeChat
    \/ ReconnectDone
    \/ StartDone
    \/ (conversationId # 0 /\ ServerAppend({<<BotText, TRUE>>}, SpeechPolls))
    \/ PollTick(SpeechPolls, TRUE)
    \/ PollRecv

InitSpec == ControlInit /\ [][InitNext]_vars

\* The conversation-start handshake on mount and after New Chat, with a bot
\* that answers with a message, with a typing activity, late or not at all
\* (it posts up to SpeechPolls activities).
HandshakeNext ==
    \/ TriggerConversationStart
    \/ UpdateDone
    \/ GraceElapsed
    \/ CheckDone
    \/ GreetingDone
    \/ NewChat
    \/ ServerAppend({<<BotText, TRUE>>, <<Shape("bot", "typing", FALSE, "", "none"), TRUE>>},
                    SpeechPolls + Len(SelectSeq(log, LAMBDA a : a.from = "user")))

HandshakeSpec == InitMuted /\ [][HandshakeNext]_vars

\* Teardown of a session in hands-free use: the poll interval, the
\* recognition session and its timers, New Chat and the conversation-start
\* timers, then the unmount of the chat window or destroy().
TeardownNext ==
    \/ PollTick(SpeechPolls, FALSE)
    \/ PollFail
    \/ ToggleDrivingMode
    \/ MicClick
    \/ AutoStartFire
    \/ RecResult(Spoken)
    \/ RecEnd
    \/ AutoSendFire
    \/ SendDone
    \/ NewChat
    \/ TriggerConversationStart
    \/ Unmount
    \/ Destroy

TeardownSpec == InitMuted /\ [][TeardownNext]_vars

\* Speech output next to the settings panel: polls of bot text messages and
\* the walk, the Enable Voice Output button and the voice preview.
PreviewNext ==
    \/ ServerAppend({<<BotText, TRUE>>}, SpeechPolls)
    \/ PollTick(SpeechPolls, TRUE)
    \/ PollRecv
    \/ WalkAudioStart
    \/ WalkAudioDone
    \/ UnlockAudio
    \/ VoicePreview
    \/ PreviewAudioStart
    \/ PreviewSettles

PreviewSpec == Init /\ [][PreviewNext]_vars

\* The attachment picker: batches of files of every kind, their data loading
\* or failing to load, and the removal of pending attachments.
AttachNext ==
    \/ AddFiles
    \/ FileLoaded
    \/ RemoveAttachment

\* the chat window with documents the user attached earlier
AttachInit ==
    /\ WindowInit /\ Started /\ isMuted /\ tts = NoSpeak
    /\ attachments \in {[i \in 1..k |-> [file |-> Doc, len |-> DataUrlLen(Doc)]] :
                            k \in 0..maxFiles}

AttachSpec == AttachInit /\ [][AttachNext]_vars

\* The hook on its own: calls of addFiles that overlap.
OverlapNext ==
    \/ AddFiles
    \/ AddFilesOverlapping
    \/ FileLoaded
    \/ RemoveAttachment

OverlapSpec == AttachInit /\ [][OverlapNext]_vars

\* the browser delivers every pending audio event and settles every fetch
FairSpeechSpec ==
    /\ SpeechSpec
    /\ WF_vars(WalkAudioStart)
    /\ WF_vars(WalkAudioDone)
    /\ WF_vars(WalkSpeakReturns)
    /\ WF_vars(SynthEnd)

(***************************************************************************)
(* Properties.                                                             *)
(***************************************************************************)
Count(seq, x) == Cardinality({i \in 1..Len(seq) : seq[i] = x})

\* the polls that have returned and whose response held the activity at pos
ReturnedWith(pos) ==
    {n \in 1..Len(pollHist) :
        pollHist[n].ret # -1 /\ pollHist[n].sent < pos /\ pos <= pollHist[n].ret}

\* C1: the transcript holds at most one message for any activity id, whatever
\* polls overlap and whatever activities a poll returns again.
C1_OneMessagePerTurn ==
    \A t \in 1..Len(log) :
        log[t].id # NoId => Count(IdSeq(messages), log[t].id) <= 1

\* C1 witness: an activity returned by two polls is in the transcript once.
C1_Witness ==
    \E t \in 1..Len(log) :
        /\ log[t].id # NoId
        /\ Cardinality(ReturnedWith(t)) >= 2
        /\ Count(IdSeq(messages), log[t].id) = 1

\* C6: every poll sends the watermark the poll before it returned, and the
\* stored watermark is never behind a watermark some poll has returned.
C6_CursorMonotone ==
    /\ \A n \in 1..(Len(pollHist) - 1) :
          pollHist[n].ret # -1 => pollHist[n + 1].sent = pollHist[n].ret
    /\ \A n \in 1..Len(pollHist) :
          pollHist[n].ret # -1 => watermark >= pollHist[n].ret

\* C7: the bot messages of the transcript are in transport order.
C7_TransportOrder ==
    \A i, j \in 1..Len(messages) :
        (i < j /\ ~messages[i].isUser /\ ~messages[j].isUser)
            => messages[i].pos < messages[j].pos

\* walks whose speak() call can still settle
LiveWalks ==
    {w \in walks : w.st \in {"fetch", "playing"} \/ (w.st = "paused" /\ audioRef = w.wid)}

\* C2: at most one walk is in progress at any time.
C2_OneWalk == Cardinality({w \in walks : w.st # "hung"}) <= 1

\* C3: speak is invoked at most once for any message id.
C3_SpokenOnce == \A id \in spokenMessageIds : Count(speakLog, id) <= 1

\* C3 witness: a spoken message that two polls returned is in the transcript
\* again after New Chat emptied seenMessageIds.
C3_Witness ==
    \E t \in 1..Len(log) :
        /\ Cardinality(ReturnedWith(t)) >= 2
        /\ Count(speakLog, t) = 1
        /\ t \in Ids(messages)
        /\ \E u \in spokenMessageIds : u \notin seenMessageIds

\* C4: a poll that hands messages to speech while the lock is held starts no
\* walk and invokes no speak, and the messages it handed over are in
\* spokenMessageIds and are never spoken.
C4_DropWhileLocked ==
    /\ [][(isSpeakingRef /\ spokenMessageIds' # spokenMessageIds) =>
            /\ walks' = walks
            /\ walkCount' = walkCount
            /\ speakLog' = speakLog
            /\ isSpeakingRef'
            /\ dropped' = dropped \cup (spokenMessageIds' \ spokenMessageIds)]_vars
    /\ [](dropped \subseteq spokenMessageIds /\ \A id \in dropped : Count(speakLog, id) = 0)

\* C4 witness: messages were handed over while a walk held the lock.
C4_Witness == dropped # {} /\ isSpeakingRef /\ walks # {}

\* a walk leaves through its finally, or is left awaiting audio that was stopped
WalkExits ==
    \E w \in walks :
        /\ w.st # "hung"
        /\ \A v \in walks' : v.wid = w.wid => v.st = "hung"

Range(seq) == {seq[i] : i \in 1..Len(seq)}

\* C8: in hands-free mode, while bot speech plays, no recognition session
\* listens and no auto-send timer is pending.
C8_MicOffWhilePlaying ==
    (drivingMode /\ isPlaying) =>
        (rec # "active" /\ ~isListening /\ autoSendTimer = NoTimer)

\* noise as the statement has it: the trimmed lower-cased text is in the
\* stoplist or shorter than 3 characters, or a reported confidence is below 0.5
StatedNoise(r) ==
    LET t == ToLowerCase(Trim(r.text))
    IN  t \in noiseWords \/ Len(t) < 3 \/ (r.conf # Undefined /\ r.conf < 50)

\* C9: a final result that is noise, delivered in hands-free mode, leaves the
\* auto-send timer as it was; no pending timer, no timer that ran out and no
\* sent message is of a result that is noise.
C9_NoiseNeverSent ==
    /\ [][(Len(heard') > Len(heard) /\ StatedNoise(heard'[Len(heard')]))
            => autoSendTimer' = autoSendTimer]_vars
    /\ [](\A r \in {autoSendTimer} \cup Range(elapsed) \cup Range(sentLog) :
            r # NoTimer => ~StatedNoise(r))

\* C9 witness: " Um " (noise once trimmed and lower-cased) and a result of
\* confidence 0.49 were delivered in hands-free mode; nothing is pending or sent.
C9_Witness ==
    /\ \E i \in 1..Len(heard) :
          heard[i] = [text |-> <<" ", "U", "m", " ">>, conf |-> Undefined]
    /\ \E i \in 1..Len(heard) :
          heard[i] = [text |-> <<"G", "o", " ", "o", "n">>, conf |-> 49]
    /\ autoSendTimer = NoTimer
    /\ sentLog = <<>>

\* C10: the results whose auto-send timer ran out are the results sent as user
\* messages, in that order.
C10_ElapsedIsSent == elapsed = sentLog

\* poll n was issued and has failed: it is no longer in flight and never returned
Failed(n) == pollHist[n].ret = -1 /\ \A p \in polls : p.n # n

\* C11: a step in which a poll fails leaves the watermark, seenMessageIds, the
\* transcript and the stored cursor as they were, and leaves the poll interval
\* set, so that the next tick issues another poll.
C11_FailedPollKeepsCursor ==
    [][(\E p \in polls : p \notin polls' /\ pollHist'[p.n].ret = -1) =>
            /\ watermark' = watermark
            /\ seenMessageIds' = seenMessageIds
            /\ messages' = messages
            /\ stored' = stored
            /\ interval /\ interval']_vars

\* C11 witness: the first poll failed, the second was issued and returned a
\* message, which the transcript holds.
C11_Witness ==
    /\ Len(pollHist) >= 2
    /\ Failed(1)
    /\ pollHist[2].ret > 0
    /\ watermark = pollHist[2].ret
    /\ Len(messages) = 1

\* C14: a poll that appends bot messages to the transcript while the UI is
\* muted and hands-free mode is off invokes no speak and adds nothing to
\* spokenMessageIds; the setting at the time the response is applied decides.
C14_MutedPollSilent ==
    [][(isMuted /\ ~drivingMode /\ Len(messages') > Len(messages)) =>
            /\ speakLog' = speakLog
            /\ spokenMessageIds' = spokenMessageIds]_vars

\* C17: a step in which a poll returns, with or without turns, sets the
\* service watermark to the watermark of the response and leaves the
\* conversation id with that watermark in the persisted entry.
C17_PollPersistsCursor ==
    [][\A n \in 1..Len(pollHist) :
          (pollHist[n].ret = -1 /\ pollHist'[n].ret # -1) =>
              /\ watermark' = pollHist'[n].ret
              /\ stored' = [conversationId |-> conversationId,
                            watermark |-> pollHist'[n].ret, savedAt |-> now]]_vars

\* C17 witness: New Chat cleared the persisted entry, and a poll that returned
\* no turns (it sent watermark 1 and got watermark 1) has written it again.
C17_Witness ==
    /\ Len(pollHist) = 2
    /\ pollHist[1] = [sent |-> 0, ret |-> 1]
    /\ pollHist[2] = [sent |-> 1, ret |-> 1]
    /\ startTimers = 2
    /\ messages = <<>>
    /\ stored = [conversationId |-> conversationId, watermark |-> 1, savedAt |-> now]

\* the turns the statement has dropped: sent by the local user, of a kind
\* other than message, or carrying the silent-greeting marker
DroppedTurn(a) == a.from = "user" \/ a.type # "message" \/ a.silent

\* C20: no message that polling put into the transcript comes from a turn of
\* the local user, a turn that is not a message or a turn with the
\* silent-greeting marker, whatever the turn's text and attachment.
C20_DroppedTurnsStayOut ==
    \A i \in 1..Len(messages) :
        ~messages[i].isUser => ~DroppedTurn(log[messages[i].pos])

\* C20 witness: a poll returned a bot turn that is not a message but has text,
\* and a bot message; the transcript holds the second only.
C20_Witness ==
    /\ Len(log) = 2
    /\ watermark = 2
    /\ log[1].type = "typing" /\ log[1].text # ""
    /\ ~DroppedTurn(log[2])
    /\ IdSeq(messages) = <<2>>

\* C15: on a freshly started conversation, a step in which the first poll
\* returns exactly one bot turn, with text and without attachment, leaves
\* exactly one message in the transcript, not user-authored, with the turn's
\* text; if the UI is unmuted, speak is invoked exactly once, with that text.
C15_FirstTurnShownAndSpoken ==
    [][(/\ Len(pollHist) >= 1
        /\ pollHist[1].ret = -1
        /\ pollHist'[1] = [sent |-> 0, ret |-> 1]
        /\ log[1].text # "" /\ log[1].att = "none"
        /\ startTimers = 1 /\ seenMessageIds = {} /\ messages = <<>> /\ speakLog = <<>>)
       => /\ Len(messages') = 1
          /\ ~messages'[1].isUser
          /\ messages'[1].text = log[1].text
          /\ ~isMuted => /\ speakLog' = <<messages'[1].id>>
                         /\ messages'[1].speakText = log[1].text]_vars

\* C12: with a stored, unexpired cursor, a reconnect answered 403 or 404
\* clears the persisted cursor and calls startConversation, whose conversation
\* is a new one; a reconnect that succeeds leaves the service with the stored
\* conversation id and watermark, and startConversation is never called.
C12_ReconnectOrRestart ==
    /\ [][(ctl.pc = "reconnect" /\ ctl'.pc # "reconnect") =>
            /\ ctl'.status \in {403, 404} =>
                  /\ stored' = NoState
                  /\ startCalls' = startCalls + 1
                  /\ ctl'.pc = "start" /\ ~ctl'.isReconnected
            /\ ctl'.status = 200 =>
                  /\ ctl'.isReconnected /\ ctl'.chatService
                  /\ conversationId' = ctl.savedState.conversationId
                  /\ watermark' = ctl.savedState.watermark
                  /\ stored' = stored]_vars
    /\ [](ctl.status = 200 => startCalls = 0)
    /\ []((ctl.status \in {403, 404} /\ ctl.started = "ok") =>
              /\ conversationId # ctl.savedState.conversationId
              /\ stored.conversationId = conversationId)

\* C12 witness: the reconnect with the stored conversation 2 was answered 404;
\* the chat window runs on conversation 1, which is the one persisted.
C12_Witness ==
    /\ ctl.savedState.conversationId = 2
    /\ ctl.status = 404
    /\ ctl.chatService /\ interval
    /\ conversationId = 1
    /\ stored.conversationId = 1

\* C13: a missing secret and a rejected conversation start end in the error
\* state; in the error state no chat service is handed over, no poll interval
\* is set and no poll was ever issued, and nothing more happens: in particular
\* startConversation, called at most once, is not called again.
C13_BlockingError ==
    /\ []((ctl.pc = "done" /\ ~ctl.secret) => (ctl.error /\ startCalls = 0))
    /\ [](ctl.started = "rejected" => ctl.error)
    /\ [](ctl.error =>
            /\ ~ctl.chatService /\ ~Rendered(ctl)
            /\ ~interval /\ polls = {} /\ pollHist = <<>> /\ startTimers = 0)
    /\ [][ctl.error => (startCalls' = startCalls /\ ctl' = ctl)]_vars
    /\ [](startCalls <= 1)

\* C13 witness: the reconnect failed and the conversation start was rejected.
C13_Witness ==
    /\ ctl.error
    /\ ctl.status = 500
    /\ ctl.started = "rejected"
    /\ startCalls = 1

\* C18: loadConversationState returns the persisted cursor, and a reconnect is
\* attempted with it, iff its age is below 30 minutes; at 30 minutes or more
\* nothing is returned, the cursor is removed from storage and no reconnect
\* is ever attempted.
C18_ExpiredCursorAbsent ==
    /\ [][(ctl.pc = "mount" /\ ctl.secret /\ stored # NoState) =>
            IF now - stored.savedAt < 30 * 60 * 1000
            THEN ctl'.savedState = stored /\ stored' = stored /\ ctl'.pc = "reconnect"
            ELSE ctl'.savedState = NoState /\ stored' = NoState /\ ctl'.pc = "start"]_vars
    /\ [](ctl.savedState = NoState => (ctl.status = 0 /\ ~ctl.isReconnected))

\* C18 witness: a cursor of exactly 30 minutes was found and not returned; a
\* new conversation was started.
C18_Witness ==
    /\ ctl.found # NoState
    /\ ctl.loadedAt - ctl.found.savedAt = 30 * 60 * 1000
    /\ ctl.savedState = NoState
    /\ ctl.started = "ok"
    /\ stored.conversationId = 1

\* the events of handshake call n before the event at index i
Before(n, i) == {hsLog[j].ev : j \in {k \in 1..(i - 1) : hsLog[k].n = n}}

\* the check response of the event at index i showed a message of the bot
SawBotMessage(i) ==
    \E t \in 1..hsLog[i].hi : log[t].from = "bot" /\ log[t].type = "message"

\* C19: a handshake call posts the conversationUpdate before anything else;
\* it posts the hidden greeting only after the conversationUpdate failed or
\* after the check that follows the grace wait failed or showed no bot
\* message, and a check that showed none is followed by the greeting; a call
\* whose check showed a bot message posts no greeting.
C19_GreetingOnlyAsFallback ==
    \A i \in 1..Len(hsLog) :
        LET e == hsLog[i]
        IN  /\ e.ev # "conversationUpdate" => "conversationUpdate" \in Before(e.n, i)
            /\ e.ev = "greeting" =>
                  /\ i > 1 /\ hsLog[i - 1].n = e.n
                  /\ \/ hsLog[i - 1].ev \in {"updateFailed", "checkFailed"}
                     \/ hsLog[i - 1].ev = "observed" /\ ~SawBotMessage(i - 1)
            /\ (e.ev = "observed" /\ SawBotMessage(i)) =>
                  \A j \in 1..Len(hsLog) :
                      hsLog[j].n = e.n => hsLog[j].ev # "greeting"
            /\ (e.ev = "observed" /\ ~SawBotMessage(i)) =>
                  /\ i < Len(hsLog)
                  /\ hsLog[i + 1] = Event(e.n, "greeting", 0)

\* C19 witness: the conversationUpdate was posted, the check after the grace
\* wait showed the conversationUpdate and a typing activity of the bot but no
\* bot message, and the hidden greeting was posted and is in the conversation.
C19_Witness ==
    /\ hsRuns = {}
    /\ Len(hsLog) = 3
    /\ hsLog[1] = Event(1, "conversationUpdate", 0)
    /\ hsLog[2].ev = "observed" /\ hsLog[2].hi = 2 /\ ~SawBotMessage(2)
    /\ hsLog[3] = Event(1, "greeting", 0)
    /\ \E t \in 1..Len(log) : log[t].silent

\* C16: after teardown (the chat window unmounted, or destroy() called) no
\* timer of the session fires: no poll is issued, no auto-send, auto-start,
\* restart, cancel-reset or conversation-start timer runs out; and no
\* recognition session is active.
C16_QuietAfterTeardown ==
    /\ [][teardown # "none" =>
            /\ Len(pollHist') = Len(pollHist)
            /\ Len(elapsed') = Len(elapsed)
            /\ ~(autoStartTimer /\ ~autoStartTimer')
            /\ restartTimers' >= restartTimers
            /\ ~(cancelResetTimer /\ ~cancelResetTimer')
            /\ startTimers' >= startTimers]_vars
    /\ [](teardown # "none" => rec # "active")

\* a file the statement has rejected: of a type and extension that are not
\* allowed, or larger than twice the size limit
RejectedFile(file) ==
    \/ file.type \notin {"image/png", "application/pdf", "text/plain"}
          /\ ToLowerCase(file.ext) \notin {<<"p", "n", "g">>, <<"p", "d", "f">>, <<"t", "x", "t">>}
    \/ file.size > 2 * 3670016

\* C21: every addFiles call ends with a result.  A batch that would bring the
\* pending attachments above 5 gets success false with an error text and
\* adds nothing.  Otherwise every file of the batch is either added or named
\* in the error text, success is false iff there is an error text, and a file
\* of a disallowed type or too large is reported.  No pending attachment is
\* ever of a disallowed type or too large (its data more than 3.5 MB).
C21_AddFilesReports ==
    /\ [][Len(addLog') > Len(addLog) =>
            LET e == addLog'[Len(addLog')]
            IN  /\ Len(addLog') = Len(addLog) + 1
                /\ IF e.pending + Len(e.files) > 5
                   THEN /\ ~e.result.success /\ e.result.error # <<>>
                        /\ e.result.added = 0
                        /\ attachments' = attachments
                   ELSE /\ e.result.added + Len(e.result.error) = Len(e.files)
                        /\ e.result.success = (e.result.error = <<>>)
                        /\ (\E i \in 1..Len(e.files) : RejectedFile(e.files[i]))
                              => (~e.result.success /\ e.result.error # <<>>)
                        /\ Len(attachments') = Len(attachments) + e.result.added]_vars
    /\ [](\A k \in 1..Len(attachments) :
            /\ ~RejectedFile(attachments[k].file)
            /\ 3 * attachments[k].len <= 4 * 3670016)
    /\ [](addCall # NoCall =>
            Len(addCall.newAttachments) + Len(addCall.errors) = addCall.i - 1)
    /\ [](Len(attachments) <= 5)

\* C21 witness: with three attachments pending, a batch of a program and a
\* document of more than 3.5 MB was handed over; both files are in the error
\* text and three attachments are pending.
C21_Witness ==
    /\ Len(addLog) = 1
    /\ addLog[1].pending = 3
    /\ addLog[1].files = <<Program, BigDoc>>
    /\ addLog[1].result = [success |-> FALSE, added |-> 0,
                           error |-> <<"File type not allowed",
                                       "File too large after processing">>]
    /\ Len(attachments) = 3

\* the last element of a sequence
Last(seq) == seq[Len(seq)]

\* the messages a step appended to the transcript that are handed to speech:
\* those with a speak text whose id was not yet in spokenMessageIds
Handed ==
    SelectSeq(SubSeq(messages', Len(messages) + 1, Len(messages')),
              LAMBDA m : m.speakText # "" /\ m.id \notin spokenMessageIds)

\* C22: a walk takes its messages in the order in which the poll appended
\* them to the transcript; speak is invoked for the first of them as the walk
\* starts and then, each time, for the message next in that order; a walk
\* ends before its last message only if the cancellation flag is set.
C22_WalkInOrder ==
    [][/\ walkCount' # walkCount =>
            /\ walkCount' = walkCount + 1
            /\ \E w \in walks' :
                  /\ w.wid = walkCount' /\ \A v \in walks : v.wid # w.wid
                  /\ w.q = IdSeq(Handed)
                  /\ speakLog' = Append(speakLog, Head(w.q))
       /\ \A w \in walks, v \in walks' :
            v.wid = w.wid =>
                \/ v.q = w.q
                \/ v.q = Tail(w.q) /\ speakLog' = Append(speakLog, Head(v.q))
       /\ (speakLog' # speakLog /\ walkCount' = walkCount) =>
            \E w \in walks, v \in walks' : v.wid = w.wid /\ v.q = Tail(w.q)
       /\ \A w \in walks :
            (w.st # "hung" /\ \A v \in walks' : v.wid # w.wid) =>
                (Len(w.q) = 1 \/ cancelSpeechRef)]_vars

\* C22 witness: one poll appended messages 1 and 2 to the transcript; the walk
\* it started has spoken 1, then 2, and has ended; nothing was cancelled.
C22_Witness ==
    /\ IdSeq(messages) = <<1, 2>>
    /\ Len(pollHist) = 1
    /\ walkCount = 1
    /\ speakLog = <<1, 2>>
    /\ walks = {}
    /\ ~cancelSpeechRef /\ ~isSpeakingRef

\* C23: in a step in which a walk goes on from its message k to the next
\* message, or ends and releases the lock, the audio of k is not playing:
\* neither the audio element of the walk nor the browser voice is speaking k.
C23_AudioEndsBeforeNext ==
    [][\A w \in walks :
          (w.st # "hung" /\ ~\E v \in walks' : v.wid = w.wid /\ v.q = w.q) =>
              /\ audioRef' # w.wid
              /\ synth' # Head(w.q)]_vars

\* C24: a speak() call of the test utterance or of the voice preview begins
\* only while no walk holds the lock, and a walk begins only while no such
\* call is in flight.
C24_OneSpeechOutput ==
    [][/\ (\E p \in previews' : p \notin previews /\ p.st = "fetch") => ~isSpeakingRef
       /\ walkCount' # walkCount => previews = {}]_vars

\* C25: every message speak was invoked for is in spokenMessageIds, from the
\* step of the invocation on; so is every message a poll handed to speech
\* while the lock was held; and no step (a speak call that settles or throws,
\* a stop, New Chat) takes an id out of spokenMessageIds.
C25_MarkedBeforeSpoken ==
    /\ [](Range(speakLog) \subseteq spokenMessageIds)
    /\ [](dropped \subseteq spokenMessageIds)
    /\ [][spokenMessageIds \subseteq spokenMessageIds']_vars
    /\ [][speakLog' # speakLog => Last(speakLog') \in spokenMessageIds']_vars

\* C25 witness: message 1 was spoken and its speak call has settled (ended or
\* thrown); message 2 was handed over while the lock was held; both are marked.
C25_Witness ==
    /\ speakLog = <<1>>
    /\ dropped = {2}
    /\ walks = {} /\ ~isSpeakingRef
    /\ spokenMessageIds = {1, 2}

\* C26: a walk during which Stop was pressed (in the audio menu or in the
\* driving-mode modal) invokes speak for no further message, whenever its
\* speak call in flight returns; the messages it has left stay in
\* spokenMessageIds.
C26_StopEndsWalk ==
    /\ [][\A w \in walks, v \in walks' :
            (v.wid = w.wid /\ w.stopped) => v.q = w.q]_vars
    /\ [](\A w \in walks : Range(w.q) \subseteq spokenMessageIds)

\* C27: the user's Pause and the user's Play (resume) in the audio menu leave
\* the speech lock isSpeakingRef as it was before the action.
C27_PauseResumeKeepLock ==
    [][(HandleAudioPause \/ HandleAudioPlay) => isSpeakingRef' = isSpeakingRef]_vars

\* C28: when the speak call for one message of a walk rejects, the walk goes
\* on with the message after it (speak is invoked for it in the same step, and
\* so on down the queue), or ends through its finally when none is left or
\* Stop was pressed; the poll loop is left as it was.
C28_SpeakErrorConfined ==
    [][rejected' # rejected =>
            \E w \in walks :
                /\ w.st = "playing"
                /\ Last(rejected') = Head(w.q)
                /\ IF Tail(w.q) # <<>> /\ ~cancelSpeechRef
                   THEN /\ [w EXCEPT !.q = Tail(w.q), !.st = "fetch"] \in walks'
                        /\ speakLog' = Append(speakLog, Head(Tail(w.q)))
                        /\ isSpeakingRef' = isSpeakingRef
                   ELSE /\ \A v \in walks' : v.wid # w.wid
                        /\ speakLog' = speakLog
                /\ UNCHANGED <<pollVars, serverVars>>]_vars

C28_Witness ==
    /\ rejected = <<1>>
    /\ speakLog = <<1, 2>>
    /\ \E w \in walks : w.q = <<2>> /\ w.st = "playing"

\* the providers of the configuration c that are configured
Configured(c) ==
    {p \in {"azure", "openai"} : IF p = "azure" THEN c.hasAzureSpeech ELSE c.hasOpenAI}

\* C29: when the provider of the selected voice is unconfigured or its request
\* fails, speak sends a request to the other provider if that one is
\* configured; the browser voice is used only when no configured provider
\* succeeds (its request and the playback of its audio); and the promise of
\* speak never rejects.
C29_ProviderCascade ==
    tts.called =>
        LET c == tts.c
            r == tts.r
            selected == ProviderOf(LEGACY_VOICE_MAP(c.voiceProfile))
            other == IF selected = "azure" THEN "openai" ELSE "azure"
        IN  /\ r.settled = "resolved"
            /\ (selected # "undefined" /\ r.out = "browser")
                   => \A p \in Configured(c) : ~(RequestOk(c, p) /\ c.playOk)
            /\ ( /\ selected # "undefined"
                 /\ ~(c.locked /\ Configured(c) # {})
                 /\ selected \notin Configured(c) \/ ~RequestOk(c, selected)
                 /\ other \in Configured(c) )
               => other \in Range(r.requests)

\* C30: a listening session that starts without a user action (a timer starts
\* it) starts in a state where hands-free mode is on, no message is being
\* sent, no bot speech is playing and no bot response is awaited.
C30_AutoStartWhenIdle ==
    [][(rec # "active" /\ rec' = "active" /\ userActs' = userActs) =>
            drivingMode /\ ~isSending /\ ~isPlaying /\ ~isTyping]_vars

\* C31: in single-shot mode a final result that is not noise becomes the value
\* of the input box and one that is noise leaves the box as it was; the step
\* of a result sends nothing and sets no auto-send timer, and a message is
\* only ever sent in a step of the user.
C31_SingleShotResult ==
    /\ [][(Len(heard') > Len(heard) /\ ~recClosure.d) =>
            /\ inputText' = IF StatedNoise(Last(heard'))
                             THEN inputText
                             ELSE Last(heard').text
            /\ sends' = sends
            /\ messages' = messages
            /\ autoSendTimer' = autoSendTimer]_vars
    /\ [][(sends' \ sends # {} /\ ~drivingMode) => userActs' # userActs]_vars

\* C32: New Chat leaves the transcript, seenMessageIds and spokenMessageIds
\* empty, and no other step removes an element from seenMessageIds or from
\* spokenMessageIds.
C32_NewChatClears ==
    /\ [][NewChat => messages' = <<>> /\ seenMessageIds' = {}
                        /\ spokenMessageIds' = {}]_vars
    /\ [][~NewChat => seenMessageIds \subseteq seenMessageIds'
                        /\ spokenMessageIds \subseteq spokenMessageIds']_vars

\* the texts joined with sep between them, built from the left
RECURSIVE Joined(_, _)
Joined(texts, sep) ==
    IF Len(texts) = 0 THEN ""
    ELSE IF Len(texts) = 1 THEN texts[1]
    ELSE Joined(SubSeq(texts, 1, Len(texts) - 1), sep) \o sep \o texts[Len(texts)]

\* C33: the message mapped from a bot turn whose first attachment is an
\* adaptive card speaks the card's speak property, else the non-empty body
\* texts joined with ". "; it shows the turn's text, else the non-empty body
\* texts joined with " "; when the card gives nothing to speak, it speaks what
\* it shows.
C33_CardMapping ==
    \A i \in 1..Len(messages) :
        LET m == messages[i]
            a == log[m.pos]
            texts == SelectSeq(a.card.body, LAMBDA t : t # "")
            speakable == IF a.card.speak # "" THEN a.card.speak ELSE Joined(texts, ". ")
            display == IF a.text # "" THEN a.text ELSE Joined(texts, " ")
        IN  (~m.isUser /\ m.att = "card") =>
                /\ m.text = display
                /\ m.speakText = IF speakable # "" THEN speakable ELSE display

\* C33 witness: a card without speak property on a turn without text, whose
\* body holds two texts, is in the transcript
C33_Witness ==
    \E i \in 1..Len(messages) :
        /\ messages[i].att = "card"
        /\ log[messages[i].pos].text = ""
        /\ messages[i].text = "A B"
        /\ messages[i].speakText = "A. B"

\* the messages of the transcript made from the activity at pos
MessagesOf(pos) == {i \in 1..Len(messages) : ~messages[i].isUser /\ messages[i].pos = pos}

\* the turn has a text, a sign-in card or an adaptive card
Carries(a) == a.text # "" \/ a.att = "signin" \/ a.att = "card"

\* C34: once a poll has returned a bot turn, the transcript holds exactly one
\* message for it when it has a text, a sign-in card or an adaptive card, and
\* none when it has none of the three; its id is in seenMessageIds either way.
C34_ContentOrDropped ==
    \A t \in 1..Len(log) :
        ReturnedWith(t) # {} =>
            /\ Cardinality(MessagesOf(t)) = IF Carries(log[t]) THEN 1 ELSE 0
            /\ log[t].id \in seenMessageIds

\* C35: with speech enabled (not muted, or hands-free mode on), a poll that
\* hands unspoken messages to the free lock starts a walk that speaks its
\* first message: no cancellation flag of an earlier Stop keeps it silent.
C35_StopOnlyCurrentWalk ==
    [][(/\ spokenMessageIds' # spokenMessageIds
        /\ ~isSpeakingRef
        /\ ~isMuted \/ drivingMode) =>
            /\ Len(speakLog') = Len(speakLog) + 1
            /\ Last(speakLog') \in spokenMessageIds' \ spokenMessageIds]_vars

\* C36: the step in which a send fails (its request leaves flight and no
\* activity reaches the conversation) clears the sending flag and the
\* awaiting-bot-response flag, so that the auto-start condition of hands-free
\* mode does not wait for a bot message.
C36_FailedSendIdle ==
    [][(sends' # sends /\ sends' \subseteq sends /\ log' = log) =>
            ~isSending' /\ ~isTyping']_vars

\* C37: once New Chat has been pressed, the polls issued before it append no
\* bot turn to the transcript and do not write the cleared cursor back.
C37_StalePollIgnored ==
    userActs > 0 =>
        /\ \A i \in 1..Len(messages) : messages[i].isUser
        /\ stored = ClearConversationState

\* saveMessages: `messages.slice(-100)` is what localStorage holds
MaxSavedMessages == 100

SaveMessages(msgs) ==
    SubSeq(msgs, IF Len(msgs) > MaxSavedMessages THEN Len(msgs) - MaxSavedMessages + 1 ELSE 1,
           Len(msgs))

\* the transcript snapshot of localStorage while the chat window is mounted and
\* New Chat has not been pressed: the save-messages effect has run after
\* every change of a transcript that is not empty
SavedSnapshot == SaveMessages(messages)

\* C38: with at most 100 messages in the transcript, every bot turn with a
\* text, a sign-in card or an adaptive card at or before the stored watermark
\* has its message in the stored snapshot of the transcript.
C38_NoTurnLostOnResume ==
    Len(messages) <= MaxSavedMessages =>
        \A t \in 1..Len(log) :
            (t <= stored.watermark /\ Carries(log[t])) =>
                \E i \in 1..Len(SavedSnapshot) :
                    ~SavedSnapshot[i].isUser /\ SavedSnapshot[i].pos = t

\* C39: the pending attachments never number more than maxFiles, also when
\* calls of addFiles overlap.
C39_AtMostMaxFiles == Len(attachments) <= maxFiles

\* C40: every bot turn without an id that a poll has returned and that has a
\* text, a sign-in card or an adaptive card has a message of its own in the
\* transcript.
C40_IdlessTurnsShown ==
    \A t \in 1..Len(log) :
        (log[t].id = NoId /\ Carries(log[t]) /\ ReturnedWith(t) # {}) =>
            MessagesOf(t) # {}
====
